---- MODULE Spec2Model ----
(***************************************************************************)
(* News fetcher: the multi-source aggregator (fetchAllArticles),           *)
(* the engagement scorer (calculateEngagementScore, scoreArticles,         *)
(* getTopArticles) and the subject registry with its relevance matcher     *)
(* (addSubject, matchContent), the source providers, the handler of GET    *)
(* /api/articles/:subjectId and the App component of the frontend.         *)
(*                                                                         *)
(* Numbers with a fractional part (the scoring weights, the contributions  *)
(* and the scores) are kept in hundredths, so that weight 0.01 is 1 and    *)
(* weight 1.0 is 100.  Strings that the code inspects character by         *)
(* character (texts, keywords) are sequences of one-character strings.     *)
(***************************************************************************)
EXTENDS Integers, Sequences, FiniteSets, TLC

\* ---------------------------------------------------------------- data model
\* Texts are sequences of characters.  Every record below lists its fields in
\* the order of these types.

Text == Seq(STRING)

Subject ==
    [id : STRING, name : STRING, description : STRING,
     keywords : Seq(Text), relatedTerms : Seq(Text)]

ScoringWeights == [upvotes : Int, comments : Int, shares : Int, reactions : Int, views : Int]

\* every metric is optional: an object is a function from the metrics it has
EngagementMetrics ==
    UNION {[present -> Int] :
             present \in SUBSET {"upvotes", "comments", "shares", "reactions", "views"}}

Article ==
    [id : STRING, title : Text, url : STRING, content : Text, source : STRING,
     publishedAt : Int, engagement : EngagementMetrics]

ScoreBreakdown ==
    [upvotesContribution : Int, commentsContribution : Int, sharesContribution : Int,
     reactionsContribution : Int, viewsContribution : Int, totalScore : Int,
     explanation : STRING, listed : Seq(STRING)]

\* one invocation of a provider: crawler.fetchArticles(subjectId)
Invocation == [subjectId : STRING, crawler : Int]

\* the promise of one callback of crawlers.map
CallbackPromise == [state : {"pending", "fulfilled", "rejected"}, value : Seq(Article)]

ScoredArticle ==
    [id : STRING, title : Text, url : STRING, content : Text, source : STRING,
     publishedAt : Int, engagement : EngagementMetrics,
     engagementScore : Int, scoreBreakdown : ScoreBreakdown,
     matchedKeywords : Seq(Text), relevanceScore : Int]

SubjectMatch == [subjectId : STRING, matchedKeywords : Seq(Text), relevanceScore : Int]

\* what res.status(...).json(...) sends; a property the body lacks is <<>>
Response ==
    [status : Int, error : Seq(STRING), subject : Seq(STRING), totalFound : Seq(Int),
     returned : Seq(Int), weights : Seq(ScoringWeights), articles : Seq(Seq(ScoredArticle))]

VARIABLES
    \* ---- aggregator: one fetchAllArticles call ----
    aggPc,          \* "idle" | "map" | "await" | "resolved" | "rejected"
    aggSubject,     \* the subjectId argument of the current call
    mapIdx,         \* index of the next crawler the crawlers.map loop visits
    calls,          \* log of crawler.fetchArticles invocations, in start order
    crawlerState,   \* per crawler: "notStarted" | "pending" | "resolved" | "rejected"
    crawlerOut,     \* per crawler: the list its fetchArticles resolved with
    wrapped,        \* per crawler: the promise of the async callback of crawlers.map
    settleOrder,    \* crawler indices in the order in which their calls settled
    allArticles,    \* the value fetchAllArticles resolved with
    \* ---- engagement scorer ----
    scoreInput,     \* the article handed to calculateEngagementScore
    scoreWeights,   \* the weights handed to it
    breakdown,      \* the ScoreBreakdown it returned
    articles,       \* the Article[] handed to scoreArticles
    scoreSubjectId, \* the subjectId handed to it
    scoredArticles, \* the ScoredArticle[] (the array getTopArticles sorts in place)
    topInput,       \* the array as it was when getTopArticles was called
    topLimit,       \* the limit handed to getTopArticles
    topArticles,    \* what getTopArticles returned
    topAgain,       \* what getTopArticles returned when applied to topArticles
    scorePc,        \* "idle" | "calculated" | "scored" | "top" | "again"
    \* ---- subject registry and relevance matcher ----
    subjects,       \* the Map<string, Subject>, as its entries in insertion order
    matchText,      \* the content argument of the matchContent call at hand
    matchId,        \* its subjectId argument
    matchResult,    \* its result
    matchPc,        \* "idle" | "matched" | "relevant"
    relevantTitle,  \* the title argument of the isRelevantToSubject call at hand
    relevantContent, \* its content argument
    relevant,       \* its result
    addLog,         \* the subjects handed to addSubject, in call order
    \* ---- GET /api/articles/:subjectId ----
    routePc,        \* "idle" | "fetching" | "enriching" | "scraping" | "responded" | "returned"
    reqSubjectId,   \* req.params.subjectId
    reqSubject,     \* the handler's subject: <<>> for undefined
    reqLimit,       \* the handler's limit
    raisedAt,       \* the pipeline stage that raised an error, "none" if none did
    enrichIdx,      \* index of the article the loop of enrichArticlesWithContent is at
    enrichedArticles, \* the array that loop fills
    scrapes,        \* the urls handed to fetchArticleContent, in call order
    scrapeLog,      \* the fetchArticleContent calls that settled, in that order
    responses,      \* the responses sent for the request, in order
    \* ---- source providers: one fetchArticles call ----
    provName,       \* the provider called: "none" or its name
    provSubject,    \* the subjectId argument of the call
    provPc,         \* "idle" | "calling" | "delay" | "items" | "returned"
    provIdx,        \* index of the endpoint the call is at
    provArticles,   \* the articles array of the call
    provLog,        \* <<kind, endpoint>> for every request started ("call") or
                    \* settled ("ok", "fail") and every delay that elapsed ("delay")
    provResponses,  \* per request settled: <<>> if it failed, <<items>> if not
    hnTop,          \* topStoryIds
    hnIds,          \* allIds
    hnState,        \* per id of allIds: "pending" | "failed" | "ok"
    hnData,         \* per id of allIds: <<>> or <<story>>, what the response holds
    \* ---- frontend: the App component ----
    appPc,          \* "unmounted" | "subjects" (fetchSubjects awaits) | "ready"
    appSubjects,    \* subjects: the ids offered by the select
    selectedSubject,
    appArticles,    \* articles: the ids of the articles shown
    loading,
    error,          \* <<>> for null, <<message>> otherwise
    appTotalFound,  \* totalFound
    inFlight,       \* the articles requests sent and not yet dealt with, each
                    \* <<subjectId, "fetch" | "json">> by the await it stands at
    lastSettled     \* what the last request dealt with ended in: <<>> before and
                    \* after a click, <<"failed">> or <<"ok", articles>>

aggVars == <<aggPc, aggSubject, mapIdx, calls, crawlerState, crawlerOut,
             wrapped, settleOrder, allArticles>>
scoreVars == <<scoreInput, scoreWeights, breakdown, articles, scoreSubjectId, scoredArticles,
               topInput, topLimit, topArticles, topAgain, scorePc>>
matchVars == <<subjects, matchText, matchId, matchResult, matchPc,
               relevantTitle, relevantContent, relevant>>
regVars == <<addLog>>
routeVars == <<routePc, reqSubjectId, reqSubject, reqLimit, raisedAt, enrichIdx,
               enrichedArticles, scrapes, scrapeLog, responses>>
provVars == <<provName, provSubject, provPc, provIdx, provArticles, provLog, provResponses,
              hnTop, hnIds, hnState, hnData>>
appVars == <<appPc, appSubjects, selectedSubject, appArticles, loading, error, appTotalFound,
             inFlight, lastSettled>>
vars == <<aggVars, scoreVars, matchVars, regVars, routeVars, provVars, appVars>>

\* ---------------------------------------------------------------- helpers

Min(a, b) == IF a <= b THEN a ELSE b

Range(s) == {s[i] : i \in 1..Len(s)}

\* all sequences over S of length at most n
RECURSIVE SeqsUpTo(_, _)
SeqsUpTo(S, n) ==
    IF n = 0 THEN {<<>>}
    ELSE LET shorter == SeqsUpTo(S, n - 1)
         IN  shorter \cup {Append(s, x) : s \in {t \in shorter : Len(t) = n - 1}, x \in S}

\* ---------------------------------------------------------------- bounds

\* most articles one provider returns for one call
MaxProviderArticles == 2

\* largest value of one engagement metric
MaxMetric == 2

\* longest array handed to scoreArticles
MaxArticles == 3

\* limits handed to getTopArticles range over -MaxLimit..MaxLimit
MaxLimit == 4

\* longest text handed to matchContent
MaxTextLen == 3

\* longest keyword list and longest related-term list of an added subject
MaxTerms == 2

\* longest title and longest content handed to isRelevantToSubject
MaxPartLen == 2

\* most addSubject calls of one run of the registry
MaxAdds == 3

\* longest limit parameter of a request's query
MaxQueryLen == 2

\* longest array handed to enrichArticlesWithContent by itself
MaxEnrichArticles == 2

\* ================================================================ aggregator

\* the registered providers, in registration order
crawlers == <<"Hacker News", "Reddit", "Dev.to">>

CrawlerIdx == 1..Len(crawlers)

\* subject ids a caller may pass (fetchAllArticles does not consult the registry)
RequestIds == {"agentic-ai", "test-subject"}

\* the articles provider i can return: told apart by id (a serial number) and source
ProviderArticles(i) == {[id |-> k, source |-> crawlers[i]] : k \in 1..MaxProviderArticles}

\* the lists provider i can resolve with: no article twice, any order
ProviderLists(i) ==
    {l \in SeqsUpTo(ProviderArticles(i), MaxProviderArticles) :
        \A a, b \in 1..Len(l) : a # b => l[a] # l[b]}

Pending == [state |-> "pending", value |-> <<>>]

\* crawlers.map(async crawler => ...) calls the callback for the next crawler
\* without waiting for the promise the previous callback returned
StartAllowedSequential(i) == \A j \in 1..(i - 1) : crawlerState[j] \in {"resolved", "rejected"}
StartAllowed(i) == TRUE

\* the callback of crawlers.map: try { return await fetchArticles } catch { return [] }
CallbackNoCatch(ok, list) ==
    IF ok THEN [state |-> "fulfilled", value |-> list]
    ELSE [state |-> "rejected", value |-> <<>>]
Callback(ok, list) ==
    IF ok THEN [state |-> "fulfilled", value |-> list]
    ELSE [state |-> "fulfilled", value |-> <<>>]

\* Promise.all(crawlerPromises): rejects with the first rejection, otherwise
\* fulfils once every promise has, with the values in index order
PromiseAllRejected == \E i \in CrawlerIdx : wrapped[i].state = "rejected"
PromiseAllFulfilled == \A i \in CrawlerIdx : wrapped[i].state = "fulfilled"

\* the order in which the results array lists the callbacks' values
ResultsInCompletionOrder == settleOrder
ResultsOrder == [i \in CrawlerIdx |-> i]

\* for (const articles of results) allArticles.push(...articles)
RECURSIVE PushAll(_, _, _)
PushAll(acc, order, k) ==
    IF k > Len(order) THEN acc
    ELSE PushAll(acc \o wrapped[order[k]].value, order, k + 1)

\* the code of fetchAllArticles runs to completion between two awaits: a
\* provider's network call settles only while the function is suspended
EventLoopFree ==
    \/ aggPc = "await"
    \/ aggPc = "map" /\ ~StartAllowed(mapIdx)

AggIdle ==
    /\ aggPc = "idle"
    /\ aggSubject = "none"
    /\ mapIdx = 1
    /\ calls = <<>>
    /\ crawlerState = [i \in CrawlerIdx |-> "notStarted"]
    /\ crawlerOut = [i \in CrawlerIdx |-> <<>>]
    /\ wrapped = [i \in CrawlerIdx |-> Pending]
    /\ settleOrder = <<>>
    /\ allArticles = <<>>

\* fetchAllArticles(subjectId) is entered: its own state
EnterFetchAllArticles(sid) ==
    /\ aggPc' = "map"
    /\ aggSubject' = sid
    /\ mapIdx' = 1
    /\ calls' = <<>>
    /\ crawlerState' = [i \in CrawlerIdx |-> "notStarted"]
    /\ crawlerOut' = [i \in CrawlerIdx |-> <<>>]
    /\ wrapped' = [i \in CrawlerIdx |-> Pending]
    /\ settleOrder' = <<>>
    /\ allArticles' = <<>>

\* fetchAllArticles(subjectId) is called
FetchAllArticles(sid) ==
    /\ aggPc \in {"idle", "resolved", "rejected"}
    /\ EnterFetchAllArticles(sid)
    /\ UNCHANGED <<scoreVars, matchVars, regVars, routeVars, provVars, appVars>>

\* one iteration of crawlers.map: the callback runs up to its await, which
\* starts crawler.fetchArticles(subjectId); after the last one the function
\* reaches await Promise.all(crawlerPromises)
MapStep ==
    /\ aggPc = "map"
    /\ StartAllowed(mapIdx)
    /\ calls' = Append(calls, [subjectId |-> aggSubject, crawler |-> mapIdx])
    /\ crawlerState' = [crawlerState EXCEPT ![mapIdx] = "pending"]
    /\ mapIdx' = mapIdx + 1
    /\ aggPc' = IF mapIdx = Len(crawlers) THEN "await" ELSE "map"
    /\ UNCHANGED <<aggSubject, crawlerOut, wrapped, settleOrder, allArticles>>
    /\ UNCHANGED <<scoreVars, matchVars, regVars, routeVars, provVars, appVars>>

\* provider i's fetchArticles settles (ok: it resolved with list; otherwise it
\* threw or rejected) and the callback that awaited it runs to its end
Settle(i, ok, list) ==
    /\ EventLoopFree
    /\ crawlerState[i] = "pending"
    /\ crawlerState' = [crawlerState EXCEPT ![i] = IF ok THEN "resolved" ELSE "rejected"]
    /\ crawlerOut' = [crawlerOut EXCEPT ![i] = IF ok THEN list ELSE <<>>]
    /\ wrapped' = [wrapped EXCEPT ![i] = Callback(ok, list)]
    /\ settleOrder' = Append(settleOrder, i)
    /\ UNCHANGED <<aggPc, aggSubject, mapIdx, calls, allArticles>>
    /\ UNCHANGED <<scoreVars, matchVars, regVars, routeVars, provVars, appVars>>

\* await Promise.all(...) resumes: on a rejection fetchAllArticles rejects,
\* otherwise it merges the results and resolves
Resume ==
    /\ aggPc = "await"
    /\ PromiseAllRejected \/ PromiseAllFulfilled
    /\ IF PromiseAllRejected
       THEN /\ aggPc' = "rejected"
            /\ allArticles' = <<>>
       ELSE /\ aggPc' = "resolved"
            /\ allArticles' = PushAll(<<>>, ResultsOrder, 1)
    /\ UNCHANGED <<aggSubject, mapIdx, calls, crawlerState, crawlerOut, wrapped, settleOrder>>
    /\ UNCHANGED <<scoreVars, matchVars, regVars, routeVars, provVars, appVars>>


\* ================================================================ subject registry and matcher

\* the characters of the model's strings; toLowerCase maps "A" to "a" and "B"
\* to "b"
Chars == {"a", "A", "b", "B", " "}

LowerChar(c) == IF c = "A" THEN "a" ELSE IF c = "B" THEN "b" ELSE c

\* String.prototype.toLowerCase
ToLowerCase(s) == [i \in 1..Len(s) |-> LowerChar(s[i])]

\* String.prototype.includes: term occurs in text as a contiguous run
Includes(text, term) ==
    \E k \in 0..(Len(text) - Len(term)) : SubSeq(text, k + 1, k + Len(term)) = term

\* the subject registered at module load (subjects/agenticAI.ts): one primary
\* keyword and one related term
agenticAISubject ==
    [id |-> "agentic-ai", name |-> "Agentic AI", description |-> "agents",
     keywords |-> << <<"a", "b">> >>, relatedTerms |-> << <<"b", "a">> >>]

\* subjects.get(id): the entry's index, 0 when the map has no such key
IndexOf(id) ==
    IF \E i \in 1..Len(subjects) : subjects[i].id = id
    THEN CHOOSE i \in 1..Len(subjects) : subjects[i].id = id
    ELSE 0

\* a lookup that falls back to the first registered subject
getSubjectOrFirst(id) ==
    IF IndexOf(id) = 0 THEN <<subjects[1]>> ELSE <<subjects[IndexOf(id)]>>
\* getSubject(id): <<>> for undefined, <<subject>> otherwise
getSubject(id) == IF IndexOf(id) = 0 THEN <<>> ELSE <<subjects[IndexOf(id)]>>

\* getAllSubjects(): Array.from(subjects.values()), the values in insertion order
getAllSubjects == subjects

\* a map whose set moves an existing key to the end
MapSetReinsert(subject) ==
    LET Others(other) == other.id # subject.id
    IN  Append(SelectSeq(subjects, Others), subject)
\* subjects.set(subject.id, subject): a new key is appended, an existing key
\* keeps its place and has its value replaced
MapSet(subject) ==
    IF IndexOf(subject.id) = 0
    THEN Append(subjects, subject)
    ELSE [subjects EXCEPT ![IndexOf(subject.id)] = subject]

\* what one matching term adds to relevanceScore
KeywordPoints == 10
RelatedPoints == 5

\* the loop below, pushing the case-folded term instead of the term as listed
RECURSIVE ScanTermsLowered(_, _, _, _, _)
ScanTermsLowered(terms, lowerContent, points, k, acc) ==
    IF k > Len(terms) THEN acc
    ELSE IF Includes(lowerContent, ToLowerCase(terms[k]))
         THEN ScanTermsLowered(terms, lowerContent, points, k + 1,
                  [matchedKeywords |-> Append(acc.matchedKeywords, ToLowerCase(terms[k])),
                   relevanceScore |-> acc.relevanceScore + points])
         ELSE ScanTermsLowered(terms, lowerContent, points, k + 1, acc)
\* the same loop, skipping a term that was pushed before
RECURSIVE ScanTermsDistinct(_, _, _, _, _)
ScanTermsDistinct(terms, lowerContent, points, k, acc) ==
    IF k > Len(terms) THEN acc
    ELSE IF /\ Includes(lowerContent, ToLowerCase(terms[k]))
            /\ \A j \in 1..Len(acc.matchedKeywords) : acc.matchedKeywords[j] # terms[k]
         THEN ScanTermsDistinct(terms, lowerContent, points, k + 1,
                  [matchedKeywords |-> Append(acc.matchedKeywords, terms[k]),
                   relevanceScore |-> acc.relevanceScore + points])
         ELSE ScanTermsDistinct(terms, lowerContent, points, k + 1, acc)
\* for (const term of terms) if (lowerContent.includes(term.toLowerCase()))
\*   { matchedKeywords.push(term); relevanceScore += points }
\* started with k = 1 on the accumulator acc
RECURSIVE ScanTerms(_, _, _, _, _)
ScanTerms(terms, lowerContent, points, k, acc) ==
    IF k > Len(terms) THEN acc
    ELSE IF Includes(lowerContent, ToLowerCase(terms[k]))
         THEN ScanTerms(terms, lowerContent, points, k + 1,
                  [matchedKeywords |-> Append(acc.matchedKeywords, terms[k]),
                   relevanceScore |-> acc.relevanceScore + points])
         ELSE ScanTerms(terms, lowerContent, points, k + 1, acc)

\* a matcher without the gate below
NoMatchIsZeroScore(found) == FALSE
\* if (matchedKeywords.length === 0) return null
NoMatchIsNull(found) == found.matchedKeywords = <<>>

\* matchContent(content, subjectId): <<>> for null, <<match>> otherwise
matchContent(content, subjectId) ==
    IF getSubject(subjectId) = <<>> THEN <<>>
    ELSE LET subject == getSubject(subjectId)[1]
             lowerContent == ToLowerCase(content)
             afterKeywords == ScanTerms(subject.keywords, lowerContent, KeywordPoints, 1,
                                  [matchedKeywords |-> <<>>, relevanceScore |-> 0])
             found == ScanTerms(subject.relatedTerms, lowerContent, RelatedPoints, 1,
                                  afterKeywords)
         IN  IF NoMatchIsNull(found) THEN <<>>
             ELSE <<[subjectId |-> subjectId,
                     matchedKeywords |-> found.matchedKeywords,
                     relevanceScore |-> found.relevanceScore]>>

\* title and content joined without the space
CombinedTextNoSpace(title, content) == title \o content
\* `${title} ${content}`
CombinedText(title, content) == title \o <<" ">> \o content

\* isRelevantToSubject(title, content, subjectId)
isRelevantToSubject(title, content, subjectId) ==
    LET match == matchContent(CombinedText(title, content), subjectId)
    IN  match # <<>> /\ match[1].relevanceScore > 0

MatchIdle ==
    /\ subjects = <<agenticAISubject>>
    /\ matchText = <<>>
    /\ matchId = "none"
    /\ matchResult = <<>>
    /\ matchPc = "idle"
    /\ relevantTitle = <<>>
    /\ relevantContent = <<>>
    /\ relevant = FALSE

RegIdle == addLog = <<>>

\* addSubject(subject) is called and returns
AddSubject(subject) ==
    /\ matchPc = "idle"
    /\ subjects' = MapSet(subject)
    /\ UNCHANGED <<matchText, matchId, matchResult, matchPc, relevantTitle, relevantContent,
                   relevant>>
    /\ UNCHANGED <<aggVars, scoreVars, routeVars, provVars, appVars>>

\* matchContent(content, subjectId) is called and computes its result
MatchContent(content, subjectId) ==
    /\ matchPc = "idle"
    /\ matchText' = content
    /\ matchId' = subjectId
    /\ matchResult' = matchContent(content, subjectId)
    /\ matchPc' = "matched"
    /\ UNCHANGED <<subjects, relevantTitle, relevantContent, relevant, addLog>>
    /\ UNCHANGED <<aggVars, scoreVars, routeVars, provVars, appVars>>

\* isRelevantToSubject(title, content, subjectId) is called and computes its
\* result; matchText and matchResult are the argument and the result of the
\* matchContent call it makes
IsRelevantToSubject(title, content, subjectId) ==
    /\ matchPc = "idle"
    /\ relevantTitle' = title
    /\ relevantContent' = content
    /\ matchId' = subjectId
    /\ matchText' = CombinedText(title, content)
    /\ matchResult' = matchContent(CombinedText(title, content), subjectId)
    /\ relevant' = isRelevantToSubject(title, content, subjectId)
    /\ matchPc' = "relevant"
    /\ UNCHANGED <<subjects, addLog>>
    /\ UNCHANGED <<aggVars, scoreVars, routeVars, provVars, appVars>>

\* the caller is done with the result of matchContent or isRelevantToSubject
MatchReturn ==
    /\ matchPc # "idle"
    /\ matchText' = <<>>
    /\ matchId' = "none"
    /\ matchResult' = <<>>
    /\ matchPc' = "idle"
    /\ relevantTitle' = <<>>
    /\ relevantContent' = <<>>
    /\ relevant' = FALSE
    /\ UNCHANGED <<subjects, addLog>>
    /\ UNCHANGED <<aggVars, scoreVars, routeVars, provVars, appVars>>

\* addSubject stores the caller's object itself and getSubject and
\* getAllSubjects hand that object out, so every entry of addLog and of
\* subjects is an object a caller holds.  pushKeyword is that object after
\* the caller's subject.keywords.push(term).
pushKeyword(subject, term) == [subject EXCEPT !.keywords = Append(subject.keywords, term)]

\* the index in addLog of the object registered under id, 0 when that object
\* was registered at module load
LoggedAt(id) ==
    IF \E k \in 1..Len(addLog) : addLog[k].id = id
    THEN CHOOSE k \in 1..Len(addLog) :
            /\ addLog[k].id = id
            /\ \A l \in (k + 1)..Len(addLog) : addLog[l].id # id
    ELSE 0

\* a caller pushes term onto the keywords of the object registered under id
CallerPushesKeyword(id, term) ==
    /\ matchPc = "idle"
    /\ IndexOf(id) # 0
    /\ Len(subjects[IndexOf(id)].keywords) < MaxTerms
    /\ subjects' = [subjects EXCEPT ![IndexOf(id)] = pushKeyword(subjects[IndexOf(id)], term)]
    /\ addLog' = IF LoggedAt(id) = 0 THEN addLog
                 ELSE [addLog EXCEPT ![LoggedAt(id)] = pushKeyword(addLog[LoggedAt(id)], term)]
    /\ UNCHANGED <<matchText, matchId, matchResult, matchPc, relevantTitle, relevantContent,
                   relevant>>
    /\ UNCHANGED <<aggVars, scoreVars, routeVars, provVars, appVars>>

\* ================================================================ engagement scorer

Metrics == <<"upvotes", "comments", "shares", "reactions", "views">>

\* the weights, in hundredths: 1.0, 2.0, 1.5, 0.8, 0.01
DEFAULT_WEIGHTS ==
    [upvotes |-> 100, comments |-> 200, shares |-> 150, reactions |-> 80, views |-> 1]

\* An EngagementMetrics object is a function from the metrics it has to their
\* values: a metric outside its domain is an absent property.

\* engagement.m || 0
OrZero(engagement, m) ==
    IF m \in DOMAIN engagement /\ engagement[m] # 0 THEN engagement[m] ELSE 0

\* an explanation that lists every metric the object has
RECURSIVE ExplanationPartsPresent(_, _)
ExplanationPartsPresent(engagement, k) ==
    IF k > Len(Metrics) THEN <<>>
    ELSE IF Metrics[k] \in DOMAIN engagement
         THEN <<Metrics[k]>> \o ExplanationPartsPresent(engagement, k + 1)
         ELSE ExplanationPartsPresent(engagement, k + 1)
\* if (engagement.m) explanationParts.push(...): the metrics the explanation lists
RECURSIVE ExplanationParts(_, _)
ExplanationParts(engagement, k) ==
    IF k > Len(Metrics) THEN <<>>
    ELSE IF OrZero(engagement, Metrics[k]) # 0
         THEN <<Metrics[k]>> \o ExplanationParts(engagement, k + 1)
         ELSE ExplanationParts(engagement, k + 1)

\* a scorer that leaves the views out of the total
TotalWithoutViews(u, c, s, r, v) == u + c + s + r
\* totalScore = the sum of the five contributions
Total(u, c, s, r, v) == u + c + s + r + v

\* a scorer that ignores the weights argument
WeightsAlwaysDefault(weightsArg) == DEFAULT_WEIGHTS
\* weights: ScoringWeights = DEFAULT_WEIGHTS; weightsArg is <<>> for an omitted
\* argument and <<w>> for the argument w
WeightsParam(weightsArg) == IF weightsArg = <<>> THEN DEFAULT_WEIGHTS ELSE weightsArg[1]

\* calculateEngagementScore(article, weights).  Of the explanation string the
\* record keeps its leading text (explanation) and the metrics its parts name,
\* in order (listed); the rendered numbers are left out.
calculateEngagementScore(article, weightsArg) ==
    LET engagement == article.engagement
        weights == WeightsParam(weightsArg)
        upvotesContribution == OrZero(engagement, "upvotes") * weights.upvotes
        commentsContribution == OrZero(engagement, "comments") * weights.comments
        sharesContribution == OrZero(engagement, "shares") * weights.shares
        reactionsContribution == OrZero(engagement, "reactions") * weights.reactions
        viewsContribution == OrZero(engagement, "views") * weights.views
        parts == ExplanationParts(engagement, 1)
    IN  [upvotesContribution |-> upvotesContribution,
         commentsContribution |-> commentsContribution,
         sharesContribution |-> sharesContribution,
         reactionsContribution |-> reactionsContribution,
         viewsContribution |-> viewsContribution,
         totalScore |-> Total(upvotesContribution, commentsContribution,
                              sharesContribution, reactionsContribution,
                              viewsContribution),
         explanation |-> IF Len(parts) > 0 THEN "Score calculation"
                         ELSE "No engagement metrics available",
         listed |-> parts]

\* `${article.title} ${article.content}`
TitleAndContent(article) == article.title \o <<" ">> \o article.content

\* a loop body that takes the upvotes contribution for the score
ScoreOneByUpvotes(article, subjectId, weightsArg) ==
    LET scoreBreakdown == calculateEngagementScore(article, weightsArg)
        match == matchContent(TitleAndContent(article), subjectId)
    IN  [id |-> article.id, title |-> article.title, url |-> article.url,
         content |-> article.content, source |-> article.source,
         publishedAt |-> article.publishedAt, engagement |-> article.engagement,
         engagementScore |-> scoreBreakdown.upvotesContribution,
         scoreBreakdown |-> scoreBreakdown,
         matchedKeywords |-> IF match = <<>> THEN <<>> ELSE match[1].matchedKeywords,
         relevanceScore |-> IF match = <<>> THEN 0 ELSE match[1].relevanceScore]
\* the body of the loop of scoreArticles for one article
ScoreOne(article, subjectId, weightsArg) ==
    LET scoreBreakdown == calculateEngagementScore(article, weightsArg)
        match == matchContent(TitleAndContent(article), subjectId)
    IN  [id |-> article.id, title |-> article.title, url |-> article.url,
         content |-> article.content, source |-> article.source,
         publishedAt |-> article.publishedAt, engagement |-> article.engagement,
         engagementScore |-> scoreBreakdown.totalScore,
         scoreBreakdown |-> scoreBreakdown,
         matchedKeywords |-> IF match = <<>> THEN <<>> ELSE match[1].matchedKeywords,
         relevanceScore |-> IF match = <<>> THEN 0 ELSE match[1].relevanceScore]

\* a scorer that leaves out the articles without a match
scoreRelevantArticles(arts, subjectId, weightsArg) ==
    LET Matched(scored) == scored.matchedKeywords # <<>>
    IN  SelectSeq([i \in 1..Len(arts) |-> ScoreOne(arts[i], subjectId, weightsArg)], Matched)
\* scoreArticles(articles, subjectId, weights)
scoreArticles(arts, subjectId, weightsArg) ==
    [i \in 1..Len(arts) |-> ScoreOne(arts[i], subjectId, weightsArg)]

\* an ascending comparator
CompareAscending(a, b) == a.engagementScore - b.engagementScore
\* (a, b) => b.engagementScore - a.engagementScore
Compare(a, b) == b.engagementScore - a.engagementScore

\* Array.prototype.sort is stable: x goes in front of the first element that the
\* comparator orders after it, behind every element that compares equal
RECURSIVE InsertSorted(_, _)
InsertSorted(sorted, x) ==
    IF sorted = <<>> THEN <<x>>
    ELSE IF Compare(sorted[1], x) > 0 THEN <<x>> \o sorted
         ELSE <<sorted[1]>> \o InsertSorted(Tail(sorted), x)

RECURSIVE SortFrom(_, _, _)
SortFrom(arr, k, sorted) ==
    IF k > Len(arr) THEN sorted ELSE SortFrom(arr, k + 1, InsertSorted(sorted, arr[k]))

\* arr.sort(compare)
Sort(arr) == SortFrom(arr, 1, <<>>)

\* Array.prototype.slice(0, end): a negative end counts from the end of the array
Slice0(arr, end) ==
    LET final == IF end < 0 THEN (IF Len(arr) + end > 0 THEN Len(arr) + end ELSE 0)
                 ELSE Min(end, Len(arr))
    IN  SubSeq(arr, 1, final)

\* getTopArticles(scoredArticles, limit): the value returned
getTopArticles(arr, limit) == Slice0(Sort(arr), limit)

NoBreakdown ==
    [upvotesContribution |-> 0, commentsContribution |-> 0, sharesContribution |-> 0,
     reactionsContribution |-> 0, viewsContribution |-> 0, totalScore |-> 0,
     explanation |-> "none", listed |-> <<>>]

CalculateIdle ==
    /\ scoreInput = <<>>
    /\ scoreWeights = <<>>
    /\ breakdown = NoBreakdown

RankIdle ==
    /\ articles = <<>>
    /\ scoreSubjectId = "none"
    /\ scoredArticles = <<>>
    /\ topInput = <<>>
    /\ topLimit = 0
    /\ topArticles = <<>>
    /\ topAgain = <<>>

ScoreIdle == scorePc = "idle" /\ CalculateIdle /\ RankIdle

\* calculateEngagementScore(article, weights) is called and computes its result
CalculateEngagementScore(article, weightsArg) ==
    /\ scorePc = "idle"
    /\ scorePc' = "calculated"
    /\ scoreInput' = <<article>>
    /\ scoreWeights' = weightsArg
    /\ breakdown' = calculateEngagementScore(article, weightsArg)
    /\ UNCHANGED <<articles, scoreSubjectId, scoredArticles, topInput, topLimit, topArticles,
                   topAgain>>
    /\ UNCHANGED <<aggVars, matchVars, regVars, routeVars, provVars, appVars>>

\* scoreArticles(articles, subjectId) is called and returns
ScoreArticles(arts, subjectId) ==
    /\ scorePc = "idle"
    /\ scorePc' = "scored"
    /\ articles' = arts
    /\ scoreSubjectId' = subjectId
    /\ scoredArticles' = scoreArticles(arts, subjectId, <<>>)
    /\ UNCHANGED <<scoreInput, scoreWeights, breakdown, topInput, topLimit, topArticles,
                   topAgain>>
    /\ UNCHANGED <<aggVars, matchVars, regVars, routeVars, provVars, appVars>>

\* getTopArticles that sorts a copy of its argument
GetTopArticlesSortsCopy(limit) ==
    /\ scorePc = "scored"
    /\ scorePc' = "top"
    /\ topInput' = scoredArticles
    /\ topLimit' = limit
    /\ topArticles' = getTopArticles(scoredArticles, limit)
    /\ UNCHANGED <<scoreInput, scoreWeights, breakdown, articles, scoreSubjectId, topAgain,
                   scoredArticles>>
    /\ UNCHANGED <<aggVars, matchVars, regVars, routeVars, provVars, appVars>>

\* getTopArticles(scoredArticles, limit) is called and returns: the array is
\* sorted in place, the result is a slice of it
GetTopArticles(limit) ==
    /\ scorePc = "scored"
    /\ scorePc' = "top"
    /\ topInput' = scoredArticles
    /\ topLimit' = limit
    /\ scoredArticles' = Sort(scoredArticles)
    /\ topArticles' = getTopArticles(scoredArticles, limit)
    /\ UNCHANGED <<scoreInput, scoreWeights, breakdown, articles, scoreSubjectId, topAgain>>
    /\ UNCHANGED <<aggVars, matchVars, regVars, routeVars, provVars, appVars>>

\* getTopArticles is applied to its own result with the same limit
GetTopAgain ==
    /\ scorePc = "top"
    /\ scorePc' = "again"
    /\ topArticles' = Sort(topArticles)
    /\ topAgain' = getTopArticles(topArticles, topLimit)
    /\ UNCHANGED <<scoreInput, scoreWeights, breakdown, articles, scoreSubjectId,
                   scoredArticles, topInput, topLimit>>
    /\ UNCHANGED <<aggVars, matchVars, regVars, routeVars, provVars, appVars>>

\* the caller is done with the arrays and results of the scorer
ScoreReturn ==
    /\ scorePc # "idle"
    /\ scorePc' = "idle"
    /\ scoreInput' = <<>>
    /\ scoreWeights' = <<>>
    /\ breakdown' = NoBreakdown
    /\ articles' = <<>>
    /\ scoreSubjectId' = "none"
    /\ scoredArticles' = <<>>
    /\ topInput' = <<>>
    /\ topLimit' = 0
    /\ topArticles' = <<>>
    /\ topAgain' = <<>>
    /\ UNCHANGED <<aggVars, matchVars, regVars, routeVars, provVars, appVars>>

\* ================================================================ source providers

\* if (!isRelevantToSubject(title, content, subjectId)) continue: of the items
\* a provider reads it keeps those that are relevant when it looks at them
Gate(items, subjectId) ==
    LET Relevant(item) == isRelevantToSubject(item.title, item.content, subjectId)
    IN  SelectSeq(items, Relevant)

\* provider i has read items, kept the relevant ones as its articles, and its
\* fetchArticles resolves with them
ProviderResolves(i, items) == Settle(i, TRUE, Gate(items, aggSubject))

\* ---- one fetchArticles call of a provider ----

TECH_SUBREDDITS ==
    <<"artificial", "MachineLearning", "technology", "programming", "LocalLLaMA",
      "singularity", "ChatGPT", "OpenAI">>

searchTerms == <<"ai", "artificial intelligence", "llm", "agents", "automation">>

TopStories == 100
NewStories == 50

\* [...new Set(ids)]: every id once, at the place where it stands first
Unique(ids) ==
    LET First(k) == \A j \in 1..(k - 1) : ids[j] # ids[k]
    IN  [n \in 1..Cardinality({k \in 1..Len(ids) : First(k)}) |->
            ids[CHOOSE k \in 1..Len(ids) :
                    First(k) /\ Cardinality({j \in 1..(k - 1) : First(j)}) = n - 1]]

\* Array.from(new Map(articles.map(a => [a.id, a])).values()): one article per
\* id, at the place of the first with that id, and it is the last with that id
UniqueById(arts) ==
    LET ids == Unique([k \in 1..Len(arts) |-> arts[k].id])
        Last(id) == CHOOSE k \in 1..Len(arts) :
                        arts[k].id = id /\ \A j \in (k + 1)..Len(arts) : arts[j].id # id
    IN  [n \in 1..Len(ids) |-> arts[Last(ids[n])]]

ProvIdle ==
    /\ provName = "none"
    /\ provSubject = "none"
    /\ provPc = "idle"
    /\ provIdx = 0
    /\ provArticles = <<>>
    /\ provLog = <<>>
    /\ provResponses = <<>>
    /\ hnTop = <<>>
    /\ hnIds = <<>>
    /\ hnState = <<>>
    /\ hnData = <<>>

\* fetchArticles(subjectId) of provider name is entered and runs up to its
\* first await, the request to its first endpoint
EnterFetchArticles(name, subjectId) ==
    /\ provPc \in {"idle", "returned"}
    /\ provName' = name
    /\ provSubject' = subjectId
    /\ provPc' = "calling"
    /\ provIdx' = 1
    /\ provArticles' = <<>>
    /\ provLog' = << <<"call", 1>> >>
    /\ provResponses' = <<>>
    /\ hnTop' = <<>>
    /\ hnIds' = <<>>
    /\ hnState' = <<>>
    /\ hnData' = <<>>
    /\ UNCHANGED <<aggVars, scoreVars, matchVars, regVars, routeVars, appVars>>

\* -- Reddit --

RedditFetchArticles(subjectId) == EnterFetchArticles("Reddit", subjectId)

\* the for loop of the Reddit provider goes to its next round, or ends and the
\* function returns; log is the log up to here
RedditNext(log) ==
    IF provIdx < Len(TECH_SUBREDDITS)
    THEN /\ provIdx' = provIdx + 1
         /\ provPc' = "calling"
         /\ provLog' = Append(log, <<"call", provIdx + 1>>)
    ELSE /\ provPc' = "returned"
         /\ provLog' = log
         /\ UNCHANGED provIdx

\* a loop whose catch leaves the function
RedditNextAfterFailureStops(log) ==
    /\ provPc' = "returned"
    /\ provLog' = log
    /\ UNCHANGED provIdx
\* catch (error) { console.error(...) } stands inside the round: the loop
\* goes on with the next subreddit
RedditNextAfterFailure(log) == RedditNext(log)

\* the request for the subreddit at hand settles.  Fulfilled: the relevant
\* posts are pushed and the function waits for its timer.  Rejected: the
\* catch of this round logs the error and the loop goes on.
RedditSettles(ok, items) ==
    /\ provName = "Reddit"
    /\ provPc = "calling"
    /\ provResponses' = Append(provResponses, IF ok THEN <<items>> ELSE <<>>)
    /\ IF ok
       THEN /\ provArticles' = provArticles \o Gate(items, provSubject)
            /\ provPc' = "delay"
            /\ provLog' = Append(provLog, <<"ok", provIdx>>)
            /\ UNCHANGED provIdx
       ELSE /\ UNCHANGED provArticles
            /\ RedditNextAfterFailure(Append(provLog, <<"fail", provIdx>>))
    /\ UNCHANGED <<provName, provSubject, hnTop, hnIds, hnState, hnData>>
    /\ UNCHANGED <<aggVars, scoreVars, matchVars, regVars, routeVars, appVars>>

\* await new Promise(resolve => setTimeout(resolve, 100)) resumes
RedditDelayElapsed ==
    /\ provName = "Reddit"
    /\ provPc = "delay"
    /\ RedditNext(Append(provLog, <<"delay", provIdx>>))
    /\ UNCHANGED <<provName, provSubject, provArticles, provResponses,
                   hnTop, hnIds, hnState, hnData>>
    /\ UNCHANGED <<aggVars, scoreVars, matchVars, regVars, routeVars, appVars>>

\* -- Dev.to --

DevToFetchArticles(subjectId) == EnterFetchArticles("Dev.to", subjectId)

\* return uniqueArticles
DevToReturn(arts) == UniqueById(arts)

\* the request for the tag at hand settles.  Fulfilled: the relevant articles
\* are pushed and the function waits for its timer.  Rejected: the catch
\* around the whole loop logs the error and the function returns.
DevToSettles(ok, items) ==
    /\ provName = "Dev.to"
    /\ provPc = "calling"
    /\ provResponses' = Append(provResponses, IF ok THEN <<items>> ELSE <<>>)
    /\ IF ok
       THEN /\ provArticles' = provArticles \o Gate(items, provSubject)
            /\ provPc' = "delay"
            /\ provLog' = Append(provLog, <<"ok", provIdx>>)
       ELSE /\ provArticles' = DevToReturn(provArticles)
            /\ provPc' = "returned"
            /\ provLog' = Append(provLog, <<"fail", provIdx>>)
    /\ UNCHANGED <<provName, provSubject, provIdx, hnTop, hnIds, hnState, hnData>>
    /\ UNCHANGED <<aggVars, scoreVars, matchVars, regVars, routeVars, appVars>>

\* await new Promise(resolve => setTimeout(resolve, 100)) resumes: the next
\* tag is requested, or the loop is over and the function returns
DevToDelayElapsed ==
    /\ provName = "Dev.to"
    /\ provPc = "delay"
    /\ IF provIdx < Len(searchTerms)
       THEN /\ provIdx' = provIdx + 1
            /\ provPc' = "calling"
            /\ provLog' = provLog \o << <<"delay", provIdx>>, <<"call", provIdx + 1>> >>
            /\ UNCHANGED provArticles
       ELSE /\ provPc' = "returned"
            /\ provLog' = Append(provLog, <<"delay", provIdx>>)
            /\ provArticles' = DevToReturn(provArticles)
            /\ UNCHANGED provIdx
    /\ UNCHANGED <<provName, provSubject, provResponses, hnTop, hnIds, hnState, hnData>>
    /\ UNCHANGED <<aggVars, scoreVars, matchVars, regVars, routeVars, appVars>>

\* -- Hacker News --

HackerNewsFetchArticles(subjectId) == EnterFetchArticles("Hacker News", subjectId)

\* the request for the story list at hand settles.  Rejected: the catch around
\* the function body logs the error and the function returns its articles,
\* none so far.  Fulfilled: the second list is requested after the first, and
\* after the second every item of allIds is requested at once.
StoryListSettles(ok, ids) ==
    /\ provName = "Hacker News"
    /\ provPc = "calling"
    /\ IF ~ok
       THEN /\ provPc' = "returned"
            /\ provLog' = Append(provLog, <<"fail", provIdx>>)
            /\ UNCHANGED <<provIdx, hnTop, hnIds, hnState, hnData>>
       ELSE IF provIdx = 1
       THEN /\ hnTop' = Slice0(ids, TopStories)
            /\ provIdx' = 2
            /\ provPc' = "calling"
            /\ provLog' = provLog \o << <<"ok", 1>>, <<"call", 2>> >>
            /\ UNCHANGED <<hnIds, hnState, hnData>>
       ELSE LET allIds == Unique(hnTop \o Slice0(ids, NewStories))
            IN  /\ hnIds' = allIds
                /\ hnState' = [k \in 1..Len(allIds) |-> "pending"]
                /\ hnData' = [k \in 1..Len(allIds) |-> <<>>]
                /\ provPc' = "items"
                /\ provLog' = Append(provLog, <<"ok", 2>>)
                /\ UNCHANGED <<provIdx, hnTop>>
    /\ UNCHANGED <<provName, provSubject, provArticles, provResponses>>
    /\ UNCHANGED <<aggVars, scoreVars, matchVars, regVars, routeVars, appVars>>

\* axios.get(item).catch(() => null)
ItemCatch(ok) == IF ok THEN "ok" ELSE "failed"

\* the request for the k-th id of allIds settles; story is <<>> when the
\* response has no data, no story type or no title, and <<item>> otherwise
ItemSettles(k, ok, story) ==
    /\ provName = "Hacker News"
    /\ provPc = "items"
    /\ k \in 1..Len(hnIds)
    /\ hnState[k] = "pending"
    /\ hnState' = [hnState EXCEPT ![k] = ItemCatch(ok)]
    /\ hnData' = [hnData EXCEPT ![k] = IF ok THEN story ELSE <<>>]
    /\ UNCHANGED <<provName, provSubject, provPc, provIdx, provArticles, provLog,
                   provResponses, hnTop, hnIds>>
    /\ UNCHANGED <<aggVars, scoreVars, matchVars, regVars, routeVars, appVars>>

\* the stories of the responses from the k-th on, in the order of allIds
RECURSIVE Stories(_)
Stories(k) == IF k > Len(hnIds) THEN <<>> ELSE hnData[k] \o Stories(k + 1)

\* await Promise.all(storyPromises) resumes: rejected, the catch around the
\* function body; fulfilled, the loop over the responses; the function returns
HackerNewsItemsDone ==
    /\ provName = "Hacker News"
    /\ provPc = "items"
    /\ \/ \E k \in 1..Len(hnIds) : hnState[k] = "rejected"
       \/ \A k \in 1..Len(hnIds) : hnState[k] # "pending"
    /\ provArticles' =
          IF \E k \in 1..Len(hnIds) : hnState[k] = "rejected" THEN <<>>
          ELSE Gate(Stories(1), provSubject)
    /\ provPc' = "returned"
    /\ UNCHANGED <<provName, provSubject, provIdx, provLog, provResponses,
                   hnTop, hnIds, hnState, hnData>>
    /\ UNCHANGED <<aggVars, scoreVars, matchVars, regVars, routeVars, appVars>>

\* ================================================================ GET /api/articles/:subjectId

\* ---- the limit of the query ----

Digits == <<"0", "1", "2", "3", "4", "5", "6", "7", "8", "9">>

IsDigit(c) == \E d \in 1..Len(Digits) : Digits[d] = c

DigitValue(c) == (CHOOSE d \in 1..Len(Digits) : Digits[d] = c) - 1

\* the number the leading digits of s spell, read from position k on with acc
\* the value read so far; what follows the digits is ignored
RECURSIVE ReadDigits(_, _, _)
ReadDigits(s, k, acc) ==
    IF k > Len(s) \/ ~IsDigit(s[k]) THEN acc
    ELSE ReadDigits(s, k + 1, 10 * acc + DigitValue(s[k]))

\* parseInt(query): query is <<>> for an absent parameter and <<s>> for the
\* string s; the result is <<>> for NaN and <<n>> for the number n.  Leading
\* spaces are skipped, one sign is read, then the digits.
RECURSIVE ParseInt(_)
ParseInt(query) ==
    IF query = <<>> \/ query[1] = <<>> THEN <<>>
    ELSE LET str == query[1]
         IN  IF str[1] = " " THEN ParseInt(<<Tail(str)>>)
             ELSE LET signed == str[1] \in {"-", "+"}
                      first == IF signed THEN 2 ELSE 1
                  IN  IF first > Len(str) \/ ~IsDigit(str[first]) THEN <<>>
                      ELSE IF str[1] = "-" THEN <<0 - ReadDigits(str, first, 0)>>
                           ELSE <<ReadDigits(str, first, 0)>>

DefaultLimit == 10

\* parseInt(req.query.limit) || 10: NaN and 0 give the default
LimitOf(query) ==
    IF ParseInt(query) = <<>> \/ ParseInt(query)[1] = 0 THEN DefaultLimit
    ELSE ParseInt(query)[1]

\* ---- enrichArticlesWithContent ----

MinContentLength == 100

MaxWords == 300

IsSpace(c) == c \in {" ", "\n"}

\* the positions of content at which a word (a run without white space) starts
WordStarts(content) ==
    {k \in 1..Len(content) :
        ~IsSpace(content[k]) /\ (k = 1 \/ IsSpace(content[k - 1]))}

\* the position at which the word that starts at k ends
WordEnd(content, k) ==
    CHOOSE j \in k..Len(content) :
        /\ \A m \in k..j : ~IsSpace(content[m])
        /\ j = Len(content) \/ IsSpace(content[j + 1])

\* the words of content, in order
Words(content) ==
    LET starts == WordStarts(content)
        Start(n) == CHOOSE k \in starts : Cardinality({j \in starts : j < k}) = n - 1
    IN  [n \in 1..Cardinality(starts) |-> SubSeq(content, Start(n), WordEnd(content, Start(n)))]

\* content.split(/\s+/): the pieces between the runs of white space, that is
\* the words, with an empty piece in front of a leading run and one behind a
\* trailing run; the empty string gives one empty piece
Split(content) ==
    (IF content = <<>> \/ IsSpace(content[1]) THEN << <<>> >> ELSE <<>>)
    \o Words(content)
    \o (IF content # <<>> /\ IsSpace(content[Len(content)]) THEN << <<>> >> ELSE <<>>)

\* words[lo..hi] joined by ' '
RECURSIVE JoinRange(_, _, _)
JoinRange(words, lo, hi) ==
    IF lo > hi THEN <<>>
    ELSE IF lo = hi THEN words[lo]
         ELSE LET mid == (lo + hi) \div 2
              IN  JoinRange(words, lo, mid) \o <<" ">> \o JoinRange(words, mid + 1, hi)

\* words.join(' ')
Join(words) == JoinRange(words, 1, Len(words))

\* content.split(/\s+/).slice(0, 300), joined by ' '
CapWords(content) == Join(Slice0(Split(content), MaxWords))

\* ---- fetchArticleContent ----

\* text.replace(/\s+/g, ' ').replace(/\n+/g, ' '): every run of white space
\* becomes one space, which leaves no line break for the second replace
CollapseSpaces(text) == Join(Split(text))

\* String.prototype.trim
Trim(text) ==
    LET inked == {k \in 1..Len(text) : ~IsSpace(text[k])}
    IN  IF inked = {} THEN <<>>
        ELSE SubSeq(text, CHOOSE k \in inked : \A j \in inked : k <= j,
                          CHOOSE k \in inked : \A j \in inked : j <= k)

\* fetchArticleContent(url), by the outcome of its request: page is <<>> when
\* axios.get rejected (a network error, the timeout, an error status) or the
\* parsing raised, and <<text>> when the page was read and text is what the
\* first matching selector, or else the body, holds.  The catch block turns
\* every failure into ''.
fetchArticleContent(page) ==
    IF page = <<>> THEN <<>>
    ELSE CapWords(Trim(CollapseSpaces(page[1])))

\* !content || content.length < 100
NeedsFetch(content) == content = <<>> \/ Len(content) < MinContentLength

\* { ...article, content }
WithContent(article, content) == [article EXCEPT !.content = content]

\* ---- the handler ----

\* the stages of the pipeline, in the order of their calls
Stages == <<"fetchAllArticles", "scoreArticles", "getTopArticles",
            "enrichArticlesWithContent">>

\* res.status(404).json({ error: 'Subject not found' })
NotFound ==
    [status |-> 404, error |-> <<"Subject not found">>, subject |-> <<>>,
     totalFound |-> <<>>, returned |-> <<>>, weights |-> <<>>, articles |-> <<>>]

\* res.status(500).json({ error: 'Failed to fetch articles' })
ServerError ==
    [status |-> 500, error |-> <<"Failed to fetch articles">>, subject |-> <<>>,
     totalFound |-> <<>>, returned |-> <<>>, weights |-> <<>>, articles |-> <<>>]

\* one element of the articles array of the body
ResponseArticle(article) ==
    [id |-> article.id, title |-> article.title, url |-> article.url,
     content |-> article.content, source |-> article.source,
     publishedAt |-> article.publishedAt, engagement |-> article.engagement,
     engagementScore |-> article.engagementScore,
     scoreBreakdown |-> article.scoreBreakdown,
     matchedKeywords |-> article.matchedKeywords,
     relevanceScore |-> article.relevanceScore]

\* a body whose totalFound is counted after the truncation
OkCountsReturned(subject, found, enriched) ==
    [status |-> 200, error |-> <<>>, subject |-> <<subject.name>>,
     totalFound |-> <<Len(enriched)>>, returned |-> <<Len(enriched)>>,
     weights |-> <<DEFAULT_WEIGHTS>>,
     articles |-> <<[i \in 1..Len(enriched) |-> ResponseArticle(enriched[i])]>>]
\* res.json({ subject, totalFound, returned, scoringMethod, weights, articles })
\* with the default status; the text of scoringMethod is left out
Ok(subject, found, enriched) ==
    [status |-> 200, error |-> <<>>, subject |-> <<subject.name>>,
     totalFound |-> <<Len(found)>>, returned |-> <<Len(enriched)>>,
     weights |-> <<DEFAULT_WEIGHTS>>,
     articles |-> <<[i \in 1..Len(enriched) |-> ResponseArticle(enriched[i])]>>]

\* a catch block that only logs the error
CatchOnlyLogs == <<>>
\* catch (error) { console.error(...); res.status(500).json(...) }: the
\* responses the catch block sends
Catch == <<ServerError>>

\* a handler that never takes the 404 exit
SubjectAlwaysFound(subject) == FALSE
\* if (!subject)
SubjectMissing(subject) == subject = <<>>

RouteIdle ==
    /\ routePc = "idle"
    /\ reqSubjectId = "none"
    /\ reqSubject = <<>>
    /\ reqLimit = 0
    /\ raisedAt = "none"
    /\ enrichIdx = 1
    /\ enrichedArticles = <<>>
    /\ scrapes = <<>>
    /\ scrapeLog = <<>>
    /\ responses = <<>>

\* A stage raises when the function called for it throws or its promise
\* rejects.  The functions of this repository do not (fetchAllArticles
\* catches every provider's failure, scoreArticles and getTopArticles are
\* total on the arrays that reach them, fetchArticleContent catches its own
\* failures); the handler's try block also covers functions put in their
\* place that do, and raised names the stage for which that happens.

\* GET /api/articles/:subjectId arrives: the handler runs up to its first
\* await, or to the 404 exit.  Reading subject.name of an undefined subject
\* inside the try block is a TypeError.
GetArticles(sid, query) ==
    /\ routePc = "idle"
    /\ reqSubjectId' = sid
    /\ reqLimit' = LimitOf(query)
    /\ reqSubject' = getSubject(sid)
    /\ IF SubjectMissing(getSubject(sid))
       THEN /\ responses' = Append(responses, NotFound)
            /\ routePc' = "responded"
            /\ UNCHANGED <<aggVars, raisedAt>>
       ELSE IF getSubject(sid) = <<>>
            THEN /\ responses' = responses \o Catch
                 /\ routePc' = "responded"
                 /\ raisedAt' = "subject.name"
                 /\ UNCHANGED aggVars
            ELSE /\ EnterFetchAllArticles(sid)
                 /\ routePc' = "fetching"
                 /\ UNCHANGED <<responses, raisedAt>>
    /\ UNCHANGED <<enrichIdx, enrichedArticles, scrapes, scrapeLog>>
    /\ UNCHANGED <<scoreVars, matchVars, regVars, provVars, appVars>>

\* await fetchAllArticles(subjectId) resumes; the handler scores, ranks and
\* enters enrichArticlesWithContent, unless one of these raised
Fetched(raised) ==
    /\ routePc = "fetching"
    /\ aggPc \in {"resolved", "rejected"}
    /\ raised \in {"none", Stages[1], Stages[2], Stages[3]}
    /\ LET thrown == IF aggPc = "rejected" THEN Stages[1] ELSE raised
           found == allArticles
           scored == scoreArticles(found, reqSubjectId, <<>>)
       IN  /\ raisedAt' = thrown
           /\ articles' = IF thrown = Stages[1] THEN <<>> ELSE found
           /\ scoreSubjectId' = IF thrown = Stages[1] THEN "none" ELSE reqSubjectId
           /\ scoredArticles' = IF thrown \in {Stages[1], Stages[2]} THEN <<>>
                                ELSE IF thrown = Stages[3] THEN scored
                                ELSE Sort(scored)
           /\ topInput' = IF thrown = "none" THEN scored ELSE <<>>
           /\ topLimit' = IF thrown = "none" THEN reqLimit ELSE 0
           /\ topArticles' = IF thrown = "none" THEN getTopArticles(scored, reqLimit) ELSE <<>>
           /\ IF thrown = "none"
              THEN /\ routePc' = "enriching"
                   /\ UNCHANGED responses
              ELSE /\ routePc' = "responded"
                   /\ responses' = responses \o Catch
    /\ UNCHANGED <<reqSubjectId, reqSubject, reqLimit, enrichIdx, enrichedArticles, scrapes,
                   scrapeLog>>
    /\ UNCHANGED <<scoreInput, scoreWeights, breakdown, topAgain, scorePc>>
    /\ UNCHANGED <<aggVars, matchVars, regVars, provVars, appVars>>

\* one round of the loop of enrichArticlesWithContent, up to its await for a
\* short content and to its end for a long one
EnrichNext ==
    /\ routePc = "enriching"
    /\ enrichIdx <= Len(topArticles)
    /\ LET article == topArticles[enrichIdx]
       IN  IF NeedsFetch(article.content)
           THEN /\ scrapes' = Append(scrapes, article.url)
                /\ routePc' = "scraping"
                /\ UNCHANGED <<enrichIdx, enrichedArticles>>
           ELSE /\ enrichedArticles' =
                      Append(enrichedArticles, WithContent(article, CapWords(article.content)))
                /\ enrichIdx' = enrichIdx + 1
                /\ UNCHANGED <<routePc, scrapes>>
    /\ UNCHANGED <<reqSubjectId, reqSubject, reqLimit, raisedAt, scrapeLog, responses>>
    /\ UNCHANGED <<aggVars, scoreVars, matchVars, regVars, provVars, appVars>>

\* a loop that asks again for a page that gave no text
ContentFetchedRetries(ok, fetchedContent) ==
    /\ routePc = "scraping"
    /\ LET article == topArticles[enrichIdx]
       IN  IF ok /\ fetchedContent # <<>>
           THEN /\ enrichedArticles' =
                      Append(enrichedArticles, WithContent(article, fetchedContent))
                /\ enrichIdx' = enrichIdx + 1
                /\ routePc' = "enriching"
                /\ UNCHANGED scrapes
           ELSE /\ scrapes' = Append(scrapes, article.url)
                /\ UNCHANGED <<enrichedArticles, enrichIdx, routePc>>
    /\ UNCHANGED <<reqSubjectId, reqSubject, reqLimit, raisedAt, responses>>
    /\ UNCHANGED <<aggVars, scoreVars, matchVars, regVars, provVars, appVars>>
\* a loop that assigns whatever fetchArticleContent resolved with
ContentFetchedAssignsEmpty(ok, fetchedContent) ==
    /\ routePc = "scraping"
    /\ LET article == topArticles[enrichIdx]
           content == IF ok THEN fetchedContent ELSE article.content
       IN  enrichedArticles' = Append(enrichedArticles, WithContent(article, content))
    /\ enrichIdx' = enrichIdx + 1
    /\ routePc' = "enriching"
    /\ UNCHANGED <<reqSubjectId, reqSubject, reqLimit, raisedAt, scrapes, responses>>
    /\ UNCHANGED <<aggVars, scoreVars, matchVars, regVars, provVars, appVars>>
\* a loop that pushes an article only when it has a text for it
ContentFetchedDropsFailed(ok, fetchedContent) ==
    /\ routePc = "scraping"
    /\ LET article == topArticles[enrichIdx]
       IN  enrichedArticles' =
              IF ok /\ fetchedContent # <<>>
              THEN Append(enrichedArticles, WithContent(article, fetchedContent))
              ELSE enrichedArticles
    /\ enrichIdx' = enrichIdx + 1
    /\ routePc' = "enriching"
    /\ UNCHANGED <<reqSubjectId, reqSubject, reqLimit, raisedAt, scrapes, responses>>
    /\ UNCHANGED <<aggVars, scoreVars, matchVars, regVars, provVars, appVars>>
\* await fetchArticleContent(article.url) resumes: it resolved with
\* fetchedContent ('' after a failure it caught), or it raised and the loop's
\* own catch took that; the round ends
ContentFetched(ok, fetchedContent) ==
    /\ routePc = "scraping"
    /\ LET article == topArticles[enrichIdx]
           content == IF ok /\ fetchedContent # <<>> THEN fetchedContent ELSE article.content
       IN  enrichedArticles' = Append(enrichedArticles, WithContent(article, content))
    /\ enrichIdx' = enrichIdx + 1
    /\ routePc' = "enriching"
    /\ UNCHANGED <<reqSubjectId, reqSubject, reqLimit, raisedAt, scrapes, responses>>
    /\ UNCHANGED <<aggVars, scoreVars, matchVars, regVars, provVars, appVars>>

\* the request fetchArticleContent made settles with page, the function
\* resolves and the loop resumes with its result
ScrapeSettles(page) ==
    /\ ContentFetched(TRUE, fetchArticleContent(page))
    /\ scrapeLog' = Append(scrapeLog, <<page, fetchArticleContent(page)>>)

\* enrichArticlesWithContent(arts) is called by itself; topArticles holds
\* its argument
EnrichArticlesWithContent(arts) ==
    /\ routePc \in {"idle", "returned"}
    /\ topArticles' = arts
    /\ enrichIdx' = 1
    /\ enrichedArticles' = <<>>
    /\ scrapes' = <<>>
    /\ scrapeLog' = <<>>
    /\ routePc' = "enriching"
    /\ UNCHANGED <<reqSubjectId, reqSubject, reqLimit, raisedAt, responses>>
    /\ UNCHANGED <<scoreInput, scoreWeights, breakdown, articles, scoreSubjectId,
                   scoredArticles, topInput, topLimit, topAgain, scorePc>>
    /\ UNCHANGED <<aggVars, matchVars, regVars, provVars, appVars>>

\* the loop is over and that call resolves with enrichedArticles
EnrichReturn ==
    /\ routePc = "enriching"
    /\ enrichIdx > Len(topArticles)
    /\ routePc' = "returned"
    /\ UNCHANGED <<reqSubjectId, reqSubject, reqLimit, raisedAt, enrichIdx, enrichedArticles,
                   scrapes, scrapeLog, responses>>
    /\ UNCHANGED <<aggVars, scoreVars, matchVars, regVars, provVars, appVars>>

\* await enrichArticlesWithContent(topArticles) resumes and the handler sends
\* its response
Enriched(raised) ==
    /\ routePc = "enriching"
    /\ enrichIdx > Len(topArticles)
    /\ raised \in {"none", Stages[4]}
    /\ raisedAt' = raised
    /\ responses' =
          IF raised # "none" THEN responses \o Catch
          ELSE Append(responses, Ok(reqSubject[1], articles, enrichedArticles))
    /\ routePc' = "responded"
    /\ UNCHANGED <<reqSubjectId, reqSubject, reqLimit, enrichIdx, enrichedArticles, scrapes,
                   scrapeLog>>
    /\ UNCHANGED <<aggVars, scoreVars, matchVars, regVars, provVars, appVars>>

\* the request is over: the handler's locals and the arrays of its pipeline
\* are gone
RequestDone ==
    /\ routePc = "responded"
    /\ routePc' = "idle"
    /\ reqSubjectId' = "none"
    /\ reqSubject' = <<>>
    /\ reqLimit' = 0
    /\ raisedAt' = "none"
    /\ enrichIdx' = 1
    /\ enrichedArticles' = <<>>
    /\ scrapes' = <<>>
    /\ scrapeLog' = <<>>
    /\ responses' = <<>>
    /\ aggPc' = "idle"
    /\ aggSubject' = "none"
    /\ mapIdx' = 1
    /\ calls' = <<>>
    /\ crawlerState' = [i \in CrawlerIdx |-> "notStarted"]
    /\ crawlerOut' = [i \in CrawlerIdx |-> <<>>]
    /\ wrapped' = [i \in CrawlerIdx |-> Pending]
    /\ settleOrder' = <<>>
    /\ allArticles' = <<>>
    /\ articles' = <<>>
    /\ scoreSubjectId' = "none"
    /\ scoredArticles' = <<>>
    /\ topInput' = <<>>
    /\ topLimit' = 0
    /\ topArticles' = <<>>
    /\ UNCHANGED <<scoreInput, scoreWeights, breakdown, topAgain, scorePc>>
    /\ UNCHANGED <<matchVars, regVars, provVars, appVars>>

\* ================================================================ frontend App

\* useState initial values; the component is not mounted yet
AppIdle ==
    /\ appPc = "unmounted"
    /\ appSubjects = <<>>
    /\ selectedSubject = "agentic-ai"
    /\ appArticles = <<>>
    /\ loading = FALSE
    /\ error = <<>>
    /\ appTotalFound = 0
    /\ inFlight = <<>>
    /\ lastSettled = <<>>

\* the component mounts: useEffect calls fetchSubjects, which awaits its request
Mount ==
    /\ appPc = "unmounted"
    /\ appPc' = "subjects"
    /\ UNCHANGED <<appSubjects, selectedSubject, appArticles, loading, error, appTotalFound,
                   inFlight, lastSettled>>
    /\ UNCHANGED <<aggVars, scoreVars, matchVars, regVars, routeVars, provVars>>

\* the subjects request settles: setSubjects(data.subjects), or the catch logs
SubjectsSettle(ok, list) ==
    /\ appPc = "subjects"
    /\ appPc' = "ready"
    /\ appSubjects' = IF ok THEN list ELSE appSubjects
    /\ UNCHANGED <<selectedSubject, appArticles, loading, error, appTotalFound, inFlight,
                   lastSettled>>
    /\ UNCHANGED <<aggVars, scoreVars, matchVars, regVars, routeVars, provVars>>

\* onChange of the select: one of its options is chosen
SelectSubject(id) ==
    /\ appPc # "unmounted"
    /\ \E k \in 1..Len(appSubjects) : appSubjects[k] = id
    /\ selectedSubject' = id
    /\ UNCHANGED <<appPc, appSubjects, appArticles, loading, error, appTotalFound, inFlight,
                   lastSettled>>
    /\ UNCHANGED <<aggVars, scoreVars, matchVars, regVars, routeVars, provVars>>

\* a fetch button that can be clicked at any time
FetchButtonNeverDisabled == FALSE

\* disabled={loading}
FetchButtonDisabled == loading

\* onClick of the fetch button: fetchArticles runs up to its await fetch(...)
FetchArticles ==
    /\ appPc # "unmounted"
    /\ ~FetchButtonDisabled
    /\ loading' = TRUE
    /\ error' = <<>>
    /\ appArticles' = <<>>
    /\ inFlight' = Append(inFlight, <<selectedSubject, "fetch">>)
    /\ lastSettled' = <<>>
    /\ UNCHANGED <<appPc, appSubjects, selectedSubject, appTotalFound>>
    /\ UNCHANGED <<aggVars, scoreVars, matchVars, regVars, routeVars, provVars>>

\* inFlight without its k-th request
Without(k) == [n \in 1..(Len(inFlight) - 1) |-> IF n < k THEN inFlight[n] ELSE inFlight[n + 1]]

\* catch (err) { setError(...) } finally { setLoading(false) } of the call that
\* sent request k; message is <<>> for a thrown value that is not an Error
CatchFinally(k, message) ==
    /\ error' = IF message = <<>> THEN <<"An error occurred">> ELSE message
    /\ loading' = FALSE
    /\ inFlight' = Without(k)
    /\ lastSettled' = <<"failed">>
    /\ UNCHANGED <<appArticles, appTotalFound>>

\* await fetch(...) of request k settles: the response is ok and the call goes
\* on to await response.json(), or it is not ok and the call throws, or the
\* fetch rejected
ResponseArrives(k, outcome, message) ==
    /\ k \in 1..Len(inFlight)
    /\ inFlight[k][2] = "fetch"
    /\ IF outcome = "ok"
       THEN /\ inFlight' = [inFlight EXCEPT ![k] = <<inFlight[k][1], "json">>]
            /\ UNCHANGED <<appArticles, loading, error, appTotalFound, lastSettled>>
       ELSE IF outcome = "not ok"
            THEN CatchFinally(k, <<"Failed to fetch articles">>)
            ELSE CatchFinally(k, message)
    /\ UNCHANGED <<appPc, appSubjects, selectedSubject>>
    /\ UNCHANGED <<aggVars, scoreVars, matchVars, regVars, routeVars, provVars>>

\* await response.json() of request k settles: setArticles, setWeights,
\* setTotalFound and finally setLoading(false), or the catch
BodySettles(k, ok, data) ==
    /\ k \in 1..Len(inFlight)
    /\ inFlight[k][2] = "json"
    /\ IF ok
       THEN /\ appArticles' = data[1]
            /\ appTotalFound' = data[2]
            /\ loading' = FALSE
            /\ inFlight' = Without(k)
            /\ lastSettled' = <<"ok", data[1]>>
            /\ UNCHANGED error
       ELSE CatchFinally(k, <<"Unexpected token">>)
    /\ UNCHANGED <<appPc, appSubjects, selectedSubject>>
    /\ UNCHANGED <<aggVars, scoreVars, matchVars, regVars, routeVars, provVars>>

\* ================================================================ inputs and specifications

\* ---- aggregator ----

InitAgg == AggIdle /\ ScoreIdle /\ MatchIdle /\ RegIdle /\ RouteIdle /\ ProvIdle /\ AppIdle

NextAgg ==
    \/ \E sid \in RequestIds : FetchAllArticles(sid)
    \/ MapStep
    \/ \E i \in CrawlerIdx : Settle(i, FALSE, <<>>)
    \/ \E i \in CrawlerIdx : \E list \in ProviderLists(i) : Settle(i, TRUE, list)
    \/ Resume

SpecAgg == InitAgg /\ [][NextAgg]_vars

\* ---- engagement scorer ----

\* every EngagementMetrics object with values up to MaxMetric
EngagementSpace ==
    UNION {[present -> 0..MaxMetric] : present \in SUBSET Range(Metrics)}

\* the engagement of the scorer's documented example
ScenarioEngagement ==
    [upvotes |-> 100, comments |-> 50, shares |-> 20, reactions |-> 30, views |-> 1000]

TestArticle(engagement) ==
    [id |-> "test-1", title |-> <<"a">>, url |-> "https://example.com", content |-> <<"b">>,
     source |-> "Test Source", publishedAt |-> 1, engagement |-> engagement]

\* custom weights 2.0, 3.0, 1.0, 1.0, 0.1
CustomWeights ==
    [upvotes |-> 200, comments |-> 300, shares |-> 100, reactions |-> 100, views |-> 10]

WeightArgs == {<<>>, <<CustomWeights>>}

\* the articles handed to scoreArticles: two of them score the same (1.0 x 1
\* upvote, and 0.8 x 1 reaction + 0.01 x 20 views), one reports nothing
ArticlePool ==
    { [id |-> "hn-1", title |-> <<"a", "b">>, url |-> "https://example.com/1",
       content |-> <<>>, source |-> "Hacker News", publishedAt |-> 0,
       engagement |-> [upvotes |-> 1, comments |-> 0]],
      [id |-> "reddit-1", title |-> <<"a">>, url |-> "https://example.com/2",
       content |-> <<"b">>, source |-> "Reddit r/artificial", publishedAt |-> 1,
       engagement |-> [upvotes |-> 0, comments |-> 1]],
      [id |-> "devto-1", title |-> <<"B">>, url |-> "https://example.com/3",
       content |-> <<"A">>, source |-> "Dev.to", publishedAt |-> 1,
       engagement |-> [comments |-> 0, reactions |-> 1, views |-> 20]],
      [id |-> "devto-2", title |-> <<"b">>, url |-> "https://example.com/4",
       content |-> <<"b">>, source |-> "Dev.to", publishedAt |-> 1,
       engagement |-> [comments |-> 0, reactions |-> 0]] }

ArticleLists == SeqsUpTo(ArticlePool, MaxArticles)

Limits == (0 - MaxLimit)..MaxLimit

InitScore == AggIdle /\ ScoreIdle /\ MatchIdle /\ RegIdle /\ RouteIdle /\ ProvIdle /\ AppIdle

NextScore ==
    \/ \E e \in EngagementSpace \cup {ScenarioEngagement} : \E w \in WeightArgs :
          CalculateEngagementScore(TestArticle(e), w)
    \/ \E arts \in ArticleLists : \E sid \in RequestIds : ScoreArticles(arts, sid)
    \/ \E limit \in Limits : GetTopArticles(limit)
    \/ GetTopAgain
    \/ ScoreReturn

SpecScore == InitScore /\ [][NextScore]_vars

\* ---- subject registry and matcher ----

TextChars == {"a", "A", "b"}

Texts == SeqsUpTo(TextChars, MaxTextLen)

KeywordPool == {<<"a">>, <<"A", "b">>}

RelatedPool == {<<"A", "b">>, <<"b">>, <<>>}

\* the subjects a caller adds under the id "test-subject"
AddedSubjects ==
    {[id |-> "test-subject", name |-> "Test Subject", description |-> "test",
      keywords |-> ks, relatedTerms |-> rs] :
        ks \in SeqsUpTo(KeywordPool, MaxTerms), rs \in SeqsUpTo(RelatedPool, MaxTerms)}

LookupIds == {"agentic-ai", "test-subject", "non-existent"}

InitMatch == AggIdle /\ ScoreIdle /\ MatchIdle /\ RegIdle /\ RouteIdle /\ ProvIdle /\ AppIdle

NextMatch ==
    \/ \E s \in AddedSubjects : AddSubject(s) /\ UNCHANGED addLog
    \/ \E t \in Texts : \E id \in LookupIds : MatchContent(t, id)
    \/ MatchReturn

SpecMatch == InitMatch /\ [][NextMatch]_vars

\* ---- isRelevantToSubject ----

RelevantChars == {"a", "B", " "}

RelevantParts == SeqsUpTo(RelevantChars, MaxPartLen)

\* the subjects a caller adds under the id "test-subject": a keyword with a
\* space in it, the empty keyword, empty lists
RelevantSubjects ==
    {[id |-> "test-subject", name |-> "Test Subject", description |-> "test",
      keywords |-> ks, relatedTerms |-> rs] :
        ks \in {<<>>, << <<"a", " ", "b">> >>, << <<>> >>, << <<"b", "a">> >>},
        rs \in {<<>>, << <<" ">> >>, << <<"A">> >>}}

InitRelevant == AggIdle /\ ScoreIdle /\ MatchIdle /\ RegIdle /\ RouteIdle /\ ProvIdle /\ AppIdle

NextRelevant ==
    \/ \E s \in RelevantSubjects : AddSubject(s) /\ UNCHANGED addLog
    \/ \E t \in RelevantParts : \E id \in LookupIds : MatchContent(t, id)
    \/ \E title \in RelevantParts : \E content \in RelevantParts : \E id \in LookupIds :
          IsRelevantToSubject(title, content, id)
    \/ MatchReturn

SpecRelevant == InitRelevant /\ [][NextRelevant]_vars

\* ---- subject registry ----

RegistryIds == {"agentic-ai", "test-subject", "test-subject-2"}

\* the subjects a caller adds: one for every id, and a second one with another
\* keyword list for "test-subject"
RegistrySubjects ==
    {[id |-> id, name |-> "Test Subject", description |-> "test",
      keywords |-> << <<"a">> >>, relatedTerms |-> <<>>] : id \in RegistryIds}
    \cup {[id |-> "test-subject", name |-> "Test Subject", description |-> "test",
           keywords |-> << <<"b">> >>, relatedTerms |-> <<>>]}

InitRegistry == AggIdle /\ ScoreIdle /\ MatchIdle /\ RegIdle /\ RouteIdle /\ ProvIdle /\ AppIdle

NextRegistry ==
    \/ \E s \in RegistrySubjects :
          /\ Len(addLog) < MaxAdds
          /\ AddSubject(s)
          /\ addLog' = Append(addLog, s)
    \/ \E id \in RegistryIds : CallerPushesKeyword(id, <<"b">>)
    \/ \E id \in RegistryIds \cup {"non-existent"} : MatchContent(<<"b">>, id)
    \/ MatchReturn

SpecRegistry == InitRegistry /\ [][NextRegistry]_vars

\* ---- GET /api/articles/:subjectId ----

RouteSubjectIds == {"agentic-ai", "unknown-subject"}

QueryChars == {"-", "0", "1", "a"}

\* the query has no limit, or the string s as its limit
Queries == {<<>>} \cup {<<str>> : str \in SeqsUpTo(QueryChars, MaxQueryLen)}

\* a content of exactly 100 characters: words of three letters
LongContent == [k \in 1..MinContentLength |-> IF k % 4 = 0 THEN " " ELSE "a"]

\* the article each provider may find: all three are relevant to the subject
\* registered at load, the first and the third score the same
RouteArticle(i) ==
    IF i = 1
    THEN [id |-> "hn-1", title |-> <<"a", "b">>, url |-> "https://example.com/1",
          content |-> <<>>, source |-> "Hacker News", publishedAt |-> 0,
          engagement |-> [upvotes |-> 1, comments |-> 0]]
    ELSE IF i = 2
    THEN [id |-> "reddit-1", title |-> <<"B", "A">>, url |-> "https://example.com/2",
          content |-> <<"b">>, source |-> "Reddit r/artificial", publishedAt |-> 1,
          engagement |-> [upvotes |-> 0, comments |-> 1]]
    ELSE [id |-> "devto-1", title |-> <<"a", "b">>, url |-> "https://example.com/3",
          content |-> LongContent, source |-> "Dev.to", publishedAt |-> 1,
          engagement |-> [comments |-> 0, reactions |-> 1, views |-> 20]]

RouteLists(i) == {<<>>, <<RouteArticle(i)>>}

\* what fetchArticleContent resolves with: '' or a text
FetchedContents == {<<>>, <<"a", " ", "b">>}

InitRoute == AggIdle /\ ScoreIdle /\ MatchIdle /\ RegIdle /\ RouteIdle /\ ProvIdle /\ AppIdle

NextRoute ==
    \/ \E sid \in RouteSubjectIds : \E query \in Queries : GetArticles(sid, query)
    \/ MapStep
    \/ \E i \in CrawlerIdx : Settle(i, FALSE, <<>>)
    \/ \E i \in CrawlerIdx : \E list \in RouteLists(i) : Settle(i, TRUE, list)
    \/ Resume
    \/ \E raised \in {"none", Stages[1], Stages[2], Stages[3]} : Fetched(raised)
    \/ EnrichNext
    \/ \E fetchedContent \in FetchedContents :
          ContentFetched(TRUE, fetchedContent) /\ UNCHANGED scrapeLog
    \/ ContentFetched(FALSE, <<>>) /\ UNCHANGED scrapeLog
    \/ \E raised \in {"none", Stages[4]} : Enriched(raised)
    \/ RequestDone

SpecRoute == InitRoute /\ [][NextRoute]_vars

\* ---- the pipeline with its providers and a registry that changes ----

\* an item of provider i in which nothing of the subject registered at load
\* occurs
OtherItem(i) ==
    [id |-> "other-1", title |-> <<"b">>, url |-> "https://example.com/5",
     content |-> <<>>, source |-> crawlers[i], publishedAt |-> 1,
     engagement |-> [upvotes |-> MaxMetric]]

\* what provider i may read from its source
Feeds(i) == {<<>>, <<RouteArticle(i)>>, <<OtherItem(i), RouteArticle(i)>>}

\* the subjects added while a request is served: both overwrite the subject
\* registered at load, the first with a keyword that no item holds
PipelineSubjects ==
    {[id |-> "agentic-ai", name |-> "Agentic AI", description |-> "agents",
      keywords |-> <<ks>>, relatedTerms |-> <<>>] : ks \in {<<"b", "b">>, <<"a">>}}

InitPipeline == AggIdle /\ ScoreIdle /\ MatchIdle /\ RegIdle /\ RouteIdle /\ ProvIdle /\ AppIdle

NextPipeline ==
    \/ GetArticles("agentic-ai", <<>>)
    \/ MapStep
    \/ \E i \in CrawlerIdx : Settle(i, FALSE, <<>>)
    \/ \E i \in CrawlerIdx : \E items \in Feeds(i) : ProviderResolves(i, items)
    \/ \E s \in PipelineSubjects :
          /\ aggPc = "await"
          /\ \E i \in CrawlerIdx : crawlerState[i] = "pending"
          /\ AddSubject(s)
          /\ UNCHANGED addLog
    \/ Resume
    \/ Fetched("none")
    \/ EnrichNext
    \/ \E fetchedContent \in FetchedContents :
          ContentFetched(TRUE, fetchedContent) /\ UNCHANGED scrapeLog
    \/ Enriched("none")
    \/ RequestDone

SpecPipeline == InitPipeline /\ [][NextPipeline]_vars

\* ---- one fetchArticles call of a provider ----

\* what one request of the Reddit provider and of the Dev.to provider may
\* give; the same Dev.to article may stand under several tags
RedditResponses == {<<>>, <<OtherItem(2), RouteArticle(2)>>}

DevToResponses == {<<>>, <<RouteArticle(3)>>, <<OtherItem(3), RouteArticle(3)>>}

\* the story lists Hacker News may give
StoryIdLists == {<<>>, <<1, 2>>, <<2, 3>>}

\* the story with the given id: the first is relevant to the subject
\* registered at load, the others are not
HnStory(id) ==
    [id |-> IF id = 1 THEN "hn-1" ELSE IF id = 2 THEN "hn-2" ELSE "hn-3",
     title |-> IF id = 2 THEN <<"b">> ELSE <<"A", "b">>,
     url |-> "https://example.com/1", content |-> <<>>, source |-> "Hacker News",
     publishedAt |-> id, engagement |-> [upvotes |-> 1, comments |-> 0]]

InitProviders == AggIdle /\ ScoreIdle /\ MatchIdle /\ RegIdle /\ RouteIdle /\ ProvIdle /\ AppIdle

NextProviders ==
    \/ RedditFetchArticles("agentic-ai")
    \/ \E items \in RedditResponses : RedditSettles(TRUE, items)
    \/ RedditSettles(FALSE, <<>>)
    \/ RedditDelayElapsed
    \/ DevToFetchArticles("agentic-ai")
    \/ \E items \in DevToResponses : DevToSettles(TRUE, items)
    \/ DevToSettles(FALSE, <<>>)
    \/ DevToDelayElapsed
    \/ HackerNewsFetchArticles("agentic-ai")
    \/ \E ids \in StoryIdLists : StoryListSettles(TRUE, ids)
    \/ StoryListSettles(FALSE, <<>>)
    \/ \E k \in 1..Len(hnIds) : \E story \in {<<>>, <<HnStory(hnIds[k])>>} :
          ItemSettles(k, TRUE, story)
    \/ \E k \in 1..Len(hnIds) : ItemSettles(k, FALSE, <<>>)
    \/ HackerNewsItemsDone

SpecProviders == InitProviders /\ [][NextProviders]_vars

\* ---- enrichArticlesWithContent ----

\* a content one character short of the threshold
ShortContent == [k \in 1..(MinContentLength - 1) |-> IF k % 4 = 0 THEN " " ELSE "a"]

\* a content above the threshold: two paragraphs with an empty line between
ParagraphContent ==
    [k \in 1..(MinContentLength + 1) |->
        IF k \in {50, 51} THEN "\n" ELSE IF k % 10 = 0 THEN " " ELSE "a"]

EnrichContents == <<<<>>, ShortContent, LongContent, ParagraphContent>>

\* the scored articles handed to enrichArticlesWithContent, one per content
EnrichArticle(i) ==
    ScoreOne([id |-> "test-1", title |-> <<"a", "b">>,
              url |-> IF i = 1 THEN "https://example.com/1"
                      ELSE IF i = 2 THEN "https://example.com/2"
                      ELSE IF i = 3 THEN "https://example.com/3"
                      ELSE "https://example.com/4",
              content |-> EnrichContents[i], source |-> "Test Source", publishedAt |-> 1,
              engagement |-> [upvotes |-> 1]],
             agenticAISubject.id, <<>>)

EnrichLists == SeqsUpTo({EnrichArticle(i) : i \in 1..Len(EnrichContents)}, MaxEnrichArticles)

\* the outcomes of a scrape request: a failure, a page without text, a page
\* with white space only, a page with text
ScrapePages ==
    {<<>>, << <<>> >>, << <<" ", "\n">> >>, << <<" ", "a", " ", "\n", "b", " ">> >>}

InitEnrich == AggIdle /\ ScoreIdle /\ MatchIdle /\ RegIdle /\ RouteIdle /\ ProvIdle /\ AppIdle

NextEnrich ==
    \/ \E arts \in EnrichLists : EnrichArticlesWithContent(arts)
    \/ EnrichNext
    \/ \E page \in ScrapePages : ScrapeSettles(page)
    \/ EnrichReturn

SpecEnrich == InitEnrich /\ [][NextEnrich]_vars

\* ---- the App ----

\* data.subjects of the subjects response, by id
SubjectLists == {<<>>, <<"agentic-ai">>, <<"agentic-ai", "web3">>}

\* data.articles, by id, and data.totalFound of an articles response
ArticlesData == {<<<<>>, 0>>, <<<<1>>, 1>>, <<<<2, 1>>, 2>>, <<<<2, 1>>, 3>>}

\* what a rejected fetch throws: an Error with a message, or another value
Thrown == {<<"Network error">>, <<>>}

InitApp == AggIdle /\ ScoreIdle /\ MatchIdle /\ RegIdle /\ RouteIdle /\ ProvIdle /\ AppIdle

NextApp ==
    \/ Mount
    \/ \E ok \in BOOLEAN : \E list \in SubjectLists : SubjectsSettle(ok, list)
    \/ \E id \in {"agentic-ai", "web3"} : SelectSubject(id)
    \/ FetchArticles
    \/ \E k \in 1..Len(inFlight) : \E outcome \in {"ok", "not ok", "rejected"} :
          \E message \in Thrown : ResponseArrives(k, outcome, message)
    \/ \E k \in 1..Len(inFlight) : \E ok \in BOOLEAN : \E data \in ArticlesData :
          BodySettles(k, ok, data)

SpecApp == InitApp /\ [][NextApp]_vars

\* ---------------------------------------------------------------- claims C1-C3

Settled(i) == crawlerState[i] \in {"resolved", "rejected"}

\* what a provider contributed: its list if its call succeeded, nothing otherwise
Healthy(i) == IF crawlerState[i] = "resolved" THEN crawlerOut[i] ELSE <<>>

RECURSIVE HealthyConcat(_)
HealthyConcat(i) == IF i = 0 THEN <<>> ELSE HealthyConcat(i - 1) \o Healthy(i)

RECURSIVE HealthyCount(_)
HealthyCount(i) == IF i = 0 THEN 0 ELSE HealthyCount(i - 1) + Len(Healthy(i))

\* C1: whatever subset of the providers throws or rejects, fetchAllArticles
\* never rejects; once every provider has settled the awaited Promise.all can
\* only fulfil; and the value resolved with is the concatenation of the lists
\* of the providers that succeeded: its length is the sum of their lengths and
\* it is empty when every provider failed.
C1_FailuresIsolated ==
    /\ aggPc # "rejected"
    /\ (aggPc = "await" /\ \A i \in CrawlerIdx : Settled(i)) => PromiseAllFulfilled
    /\ aggPc = "resolved" =>
        /\ allArticles = HealthyConcat(Len(crawlers))
        /\ Len(allArticles) = HealthyCount(Len(crawlers))
        /\ (\A i \in CrawlerIdx : crawlerState[i] = "rejected") => allArticles = <<>>

\* a call resolved although one provider failed and two returned articles
C1_Witness ==
    /\ aggPc = "resolved"
    /\ \E i \in CrawlerIdx : crawlerState[i] = "rejected"
    /\ Cardinality({i \in CrawlerIdx : crawlerState[i] = "resolved" /\ crawlerOut[i] # <<>>}) = 2
    /\ Len(allArticles) >= 2

CrawlerOf(a) == CHOOSE i \in CrawlerIdx : crawlers[i] = a.source

FromCrawler(i) == LET Test(a) == a.source = crawlers[i] IN SelectSeq(allArticles, Test)

\* C2: fetchAllArticles resolves only after every provider call has settled,
\* and the sequence it resolves with does not depend on the order in which the
\* calls completed: the articles stand in provider-registration order and the
\* articles of one provider in the order that provider returned them.
C2_FixedMergeOrder ==
    aggPc = "resolved" =>
        /\ \A i \in CrawlerIdx : Settled(i)
        /\ \A p, q \in 1..Len(allArticles) :
              p < q => CrawlerOf(allArticles[p]) <= CrawlerOf(allArticles[q])
        /\ \A i \in CrawlerIdx : FromCrawler(i) = Healthy(i)

\* a call resolved whose providers completed in reverse registration order, the
\* first and the last provider both with two articles
C2_Witness ==
    /\ aggPc = "resolved"
    /\ settleOrder = <<3, 2, 1>>
    /\ Len(crawlerOut[1]) = 2
    /\ Len(crawlerOut[3]) = 2
    /\ allArticles[1].source = crawlers[1]

\* C3: one call invokes every registered provider exactly once, each with the
\* call's subjectId, never a second time after a failure, and every provider
\* has been invoked before the first of the invocations finishes.
C3_AllStartedOnce ==
    /\ \A k \in 1..Len(calls) : calls[k].subjectId = aggSubject
    /\ \A k, l \in 1..Len(calls) : k # l => calls[k].crawler # calls[l].crawler
    /\ (\E i \in CrawlerIdx : Settled(i)) =>
          \A j \in CrawlerIdx : crawlerState[j] # "notStarted"
    /\ aggPc \in {"await", "resolved"} =>
          {calls[k].crawler : k \in 1..Len(calls)} = CrawlerIdx

\* a provider has failed while the other two calls are still running, and each
\* of the three was invoked once
C3_Witness ==
    /\ aggPc = "await"
    /\ crawlerState[1] = "rejected"
    /\ crawlerState[2] = "pending"
    /\ crawlerState[3] = "pending"
    /\ Len(calls) = 3

\* ---------------------------------------------------------------- claims C4-C7

Ranked == scorePc \in {"top", "again"}

\* the place of the article at input position p in a stable descending order:
\* one more than the number of articles that score higher, or score the same
\* and stand earlier in the input
TopRank(p) ==
    1 + Cardinality({q \in 1..Len(topInput) :
            \/ topInput[q].engagementScore > topInput[p].engagementScore
            \/ /\ topInput[q].engagementScore = topInput[p].engagementScore
               /\ q < p})

\* C4: for a limit of at least 1, getTopArticles returns the first
\* min(limit, length) articles of the input in descending engagementScore,
\* articles of equal score in their input order; applied again to its result
\* with the same limit it returns the same sequence.
C4_TopIsStableDescendingPrefix ==
    (Ranked /\ topLimit >= 1) =>
        /\ Len(topArticles) = Min(topLimit, Len(topInput))
        /\ \A p \in 1..Len(topInput) :
              TopRank(p) <= Len(topArticles) => topArticles[TopRank(p)] = topInput[p]
        /\ scorePc = "again" => topAgain = topArticles

\* three articles, the lowest first and then two of equal score, were cut to
\* the top two, and getTopArticles was applied to the result again
C4_Witness ==
    /\ scorePc = "again"
    /\ topLimit = 2
    /\ Len(topInput) = 3
    /\ topInput[1].id = "devto-2"
    /\ topInput[2].id = "devto-1"
    /\ topInput[3].id = "hn-1"
    /\ topAgain = <<topInput[2], topInput[3]>>

\* C5: for a limit of zero or less, getTopArticles returns the empty sequence.
C5_NonPositiveLimitEmpty ==
    (Ranked /\ topLimit <= 0) => topArticles = <<>>

\* the value of a metric with an absent metric counted as 0
MetricValue(engagement, m) == IF m \in DOMAIN engagement THEN engagement[m] ELSE 0

\* the documented default weights 1.0, 2.0, 1.5, 0.8, 0.01, in hundredths
DocumentedWeights ==
    [upvotes |-> 100, comments |-> 200, shares |-> 150, reactions |-> 80, views |-> 1]

WeightsInForce == IF scoreWeights = <<>> THEN DocumentedWeights ELSE scoreWeights[1]

\* C6: each of the five contributions is the metric's value (0 when the metric
\* is absent) times the metric's weight, totalScore is the sum of the five,
\* and without a weights argument the weights are 1.0, 2.0, 1.5, 0.8, 0.01.
C6_WeightedSum ==
    scorePc = "calculated" =>
        LET e == scoreInput[1].engagement
            w == WeightsInForce
        IN  /\ breakdown.upvotesContribution = MetricValue(e, "upvotes") * w.upvotes
            /\ breakdown.commentsContribution = MetricValue(e, "comments") * w.comments
            /\ breakdown.sharesContribution = MetricValue(e, "shares") * w.shares
            /\ breakdown.reactionsContribution = MetricValue(e, "reactions") * w.reactions
            /\ breakdown.viewsContribution = MetricValue(e, "views") * w.views
            /\ breakdown.totalScore =
                  breakdown.upvotesContribution + breakdown.commentsContribution
                  + breakdown.sharesContribution + breakdown.reactionsContribution
                  + breakdown.viewsContribution

\* an article without shares and reactions was scored with custom weights
C6_Witness ==
    /\ scorePc = "calculated"
    /\ scoreWeights = <<CustomWeights>>
    /\ DOMAIN scoreInput[1].engagement = {"upvotes", "comments", "views"}
    /\ scoreInput[1].engagement["upvotes"] = 2
    /\ scoreInput[1].engagement["views"] = 1
    /\ breakdown.totalScore = 410 + 300 * scoreInput[1].engagement["comments"]

ScenarioScored ==
    /\ scorePc = "calculated"
    /\ scoreInput[1].engagement = ScenarioEngagement
    /\ scoreWeights = <<>>

\* C7 as stated: the article with upvotes 100, comments 50, shares 20,
\* reactions 30 and views 1000 scores 321 under the default weights.
C7_ScenarioScores321 == ScenarioScored => breakdown.totalScore = 32100

\* C7 as amended: that article scores 264 under the default weights
\* (100 + 100 + 30 + 24 + 10).
C7_ScenarioScores264 == ScenarioScored => breakdown.totalScore = 26400

\* the scenario's article was scored without a weights argument
C7_Witness == ScenarioScored /\ breakdown.viewsContribution = 1000

\* ---------------------------------------------------------------- claims C8-C10

\* u and v are the same up to letter case
SameLetters(u, v) ==
    /\ Len(u) = Len(v)
    /\ \A k \in 1..Len(u) : LowerChar(u[k]) = LowerChar(v[k])

\* term occurs in text, letter case aside
Occurs(term, text) ==
    \E i \in 1..(Len(text) + 1) : \E j \in (i - 1)..Len(text) :
        SameLetters(SubSeq(text, i, j), term)

MatchedSubject == subjects[IndexOf(matchId)]

MatchedRegistered == matchPc = "matched" /\ IndexOf(matchId) # 0

OccursInMatchText(term) == Occurs(term, matchText)

\* C8: a present result of matchContent has a non-empty matchedKeywords and a
\* relevanceScore above 0, and the result is absent when no keyword and no
\* related term of the subject occurs in the text.
C8_NoEmptyMatch ==
    matchPc = "matched" =>
        /\ matchResult # <<>> =>
              /\ matchResult[1].matchedKeywords # <<>>
              /\ matchResult[1].relevanceScore > 0
        /\ ( /\ IndexOf(matchId) # 0
             /\ \A k \in 1..Len(MatchedSubject.keywords) :
                   ~OccursInMatchText(MatchedSubject.keywords[k])
             /\ \A k \in 1..Len(MatchedSubject.relatedTerms) :
                   ~OccursInMatchText(MatchedSubject.relatedTerms[k]) )
           => matchResult = <<>>

\* a text was matched against an added subject with two keywords and two
\* related terms, none of which occurs in it, and the result is absent
C8_Witness ==
    /\ MatchedRegistered
    /\ matchId = "test-subject"
    /\ Len(MatchedSubject.keywords) = 2
    /\ Len(MatchedSubject.relatedTerms) = 2
    /\ Len(matchText) = 3
    /\ matchResult = <<>>

ExpectedKeywords == SelectSeq(MatchedSubject.keywords, OccursInMatchText)

ExpectedRelated == SelectSeq(MatchedSubject.relatedTerms, OccursInMatchText)

\* C9: a present result lists the keywords that occur in the text (letter case
\* aside), in list order and as listed, followed by the related terms selected
\* the same way; relevanceScore is 10 per keyword entry plus 5 per related-term
\* entry, so a term in both lists is listed twice and adds 15; and a text that
\* differs only in letter case gives the same result.
C9_MatchEqualsReference ==
    (MatchedRegistered /\ matchResult # <<>>) =>
        /\ matchResult[1].subjectId = matchId
        /\ matchResult[1].matchedKeywords = ExpectedKeywords \o ExpectedRelated
        /\ matchResult[1].relevanceScore =
              10 * Len(ExpectedKeywords) + 5 * Len(ExpectedRelated)
        /\ \A t \in Texts :
              SameLetters(t, matchText) => matchContent(t, matchId) = matchResult

\* the term "Ab" stands in both lists of the subject, the text "ab" holds it in
\* another letter case, and the result lists it twice with score 15
C9_Witness ==
    /\ MatchedRegistered
    /\ matchText = <<"a", "b">>
    /\ matchResult # <<>>
    /\ matchResult[1].matchedKeywords = << <<"A", "b">>, <<"A", "b">> >>
    /\ matchResult[1].relevanceScore = 15
    /\ MatchedSubject.keywords = << <<"A", "b">> >>

RelatedOnly ==
    /\ MatchedRegistered
    /\ \E k \in 1..Len(MatchedSubject.relatedTerms) :
          OccursInMatchText(MatchedSubject.relatedTerms[k])
    /\ \A k \in 1..Len(MatchedSubject.keywords) :
          ~OccursInMatchText(MatchedSubject.keywords[k])

\* C10 as stated: for a text with a related term and no keyword of the subject,
\* relevanceScore is 5 times the number of distinct related terms matched.
C10_FivePerDistinctTerm ==
    RelatedOnly =>
        /\ matchResult # <<>>
        /\ matchResult[1].relevanceScore =
              5 * Cardinality({t \in Range(MatchedSubject.relatedTerms) :
                                  OccursInMatchText(t)})

\* C10 as amended: for such a text relevanceScore is 5 times the number of
\* entries of the subject's relatedTerms list that match, an entry that is
\* listed twice counting twice.
C10_FivePerMatchingEntry ==
    RelatedOnly =>
        /\ matchResult # <<>>
        /\ matchResult[1].relevanceScore = 5 * Len(ExpectedRelated)

\* the subject lists the related term "b" twice, the text holds it and no
\* keyword, and the score is 10
C10_Witness ==
    /\ RelatedOnly
    /\ MatchedSubject.relatedTerms = << <<"b">>, <<"b">> >>
    /\ MatchedSubject.keywords = << <<"a">> >>
    /\ matchText = <<"b", "b">>
    /\ matchResult[1].relevanceScore = 10

\* ---------------------------------------------------------------- claims C11-C13

\* C11 as stated: whatever subject is registered, matchContent with the empty
\* text returns absent and isRelevantToSubject with an empty title and an
\* empty content returns false.
C11_EmptyTextNoMatch ==
    /\ (matchPc = "matched" /\ matchText = <<>>) => matchResult = <<>>
    /\ (matchPc = "relevant" /\ relevantTitle = <<>> /\ relevantContent = <<>>) => ~relevant

\* C12: for a subject id that is not registered, whatever the text, the
\* result of matchContent is absent and the result of isRelevantToSubject is
\* false; both calls return a value.
C12_UnknownIdNoMatch ==
    (matchPc # "idle" /\ IndexOf(matchId) = 0) =>
        /\ matchResult = <<>>
        /\ relevant = FALSE

\* isRelevantToSubject was called with an unregistered id on a title and a
\* content that hold the keyword of the subject registered at load
C12_Witness ==
    /\ matchPc = "relevant"
    /\ matchId = "non-existent"
    /\ relevantTitle = <<"a", "B">>
    /\ Occurs(agenticAISubject.keywords[1], matchText)
    /\ relevant = FALSE

\* the article a provider builds from the title and the content it tested
ArticleOf(title, content) ==
    [id |-> "test-1", title |-> title, url |-> "https://example.com", content |-> content,
     source |-> "Test Source", publishedAt |-> 1, engagement |-> [upvotes |-> 1]]

\* C13: isRelevantToSubject(title, content, subjectId) is true exactly when
\* matchContent of title, one space, content returns a present result, and
\* exactly when scoreArticles finds matched keywords (a relevanceScore above
\* 0) for the article with that title and content.
C13_RelevantIffMatch ==
    matchPc = "relevant" =>
        LET combined == relevantTitle \o <<" ">> \o relevantContent
            scored == scoreArticles(<<ArticleOf(relevantTitle, relevantContent)>>,
                                    matchId, <<>>)[1]
        IN  /\ matchText = combined
            /\ relevant <=> (matchContent(combined, matchId) # <<>>)
            /\ relevant <=> (scored.matchedKeywords # <<>>)
            /\ relevant <=> (scored.relevanceScore > 0)

\* the keyword "a b" occurs neither in the title "a" nor in the content "B",
\* and the call is true because it occurs across the boundary
C13_Witness ==
    /\ matchPc = "relevant"
    /\ relevantTitle = <<"a">>
    /\ relevantContent = <<"B">>
    /\ IndexOf(matchId) # 0
    /\ MatchedSubject.keywords = << <<"a", " ", "b">> >>
    /\ MatchedSubject.relatedTerms = <<>>
    /\ relevant = TRUE
    /\ matchContent(relevantTitle, matchId) = <<>>
    /\ matchContent(relevantContent, matchId) = <<>>

\* ---------------------------------------------------------------- claims C17-C18

\* the addSubject calls made with id, as indices of addLog
AddedUnder(id) == {k \in 1..Len(addLog) : addLog[k].id = id}

LatestAdd(id) == CHOOSE k \in AddedUnder(id) : \A l \in AddedUnder(id) : l <= k

\* the ids in the order in which they were first registered: the subject of
\* module load, then the ids of the addSubject calls without repetitions
RECURSIVE FirstRegistered(_, _)
FirstRegistered(k, seen) ==
    IF k > Len(addLog) THEN seen
    ELSE IF \E i \in 1..Len(seen) : seen[i] = addLog[k].id
         THEN FirstRegistered(k + 1, seen)
         ELSE FirstRegistered(k + 1, Append(seen, addLog[k].id))

C17_State ==
    /\ \A id \in RegistryIds \cup {"non-existent"} :
          IF AddedUnder(id) # {} THEN getSubject(id) = <<addLog[LatestAdd(id)]>>
          ELSE IF id = agenticAISubject.id
               THEN getSubject(id) # <<>> /\ getSubject(id)[1].id = id
               ELSE getSubject(id) = <<>>
    /\ [i \in 1..Len(getAllSubjects) |-> getAllSubjects[i].id]
          = FirstRegistered(1, <<agenticAISubject.id>>)

C17_Step ==
    \A id \in RegistryIds : getSubject(id) # <<>> => getSubject(id)' # <<>>

\* C17: getSubject(id) is the subject of the latest addSubject call with that
\* id, whole and unmerged, and is absent for an id never registered;
\* getAllSubjects lists one subject per registered id, in the order in which
\* the ids were first registered; and no step makes a registered id absent.
C17_LastWriteWins == []C17_State /\ [][C17_Step]_vars

\* "test-subject" was added with keyword "a", then "test-subject-2", then
\* "test-subject" again with keyword "b": it keeps its place and has the
\* keyword list of the second call only
C17_Witness ==
    /\ Len(addLog) = 3
    /\ addLog[1].id = "test-subject"
    /\ addLog[1].keywords = << <<"a">> >>
    /\ addLog[2].id = "test-subject-2"
    /\ addLog[3].id = "test-subject"
    /\ addLog[3].keywords = << <<"b">> >>
    /\ getSubject("test-subject") = <<addLog[3]>>
    /\ getAllSubjects[2].id = "test-subject"
    /\ Len(getAllSubjects) = 3

\* the step is an addSubject call with id
Overwrites(id) ==
    /\ Len(addLog') = Len(addLog) + 1
    /\ addLog'[Len(addLog')].id = id

\* C18 as stated: the keywords and relatedTerms that getSubject observes for
\* a registered id, and the result matchContent gives for it, change only in
\* a step that is an addSubject call with that id.
C18_ChangedOnlyByOverwrite ==
    [][\A id \in RegistryIds :
          ( /\ getSubject(id) # <<>>
            /\ \/ getSubject(id)'[1].keywords # getSubject(id)[1].keywords
               \/ getSubject(id)'[1].relatedTerms # getSubject(id)[1].relatedTerms
               \/ matchContent(<<"b">>, id)' # matchContent(<<"b">>, id) )
          => Overwrites(id)]_vars

\* ---------------------------------------------------------------- claims C14-C16

\* no keyword and no related term of the subject registered under id occurs
\* in the article's title, one space, content; or no subject is registered
NothingOccurs(article, id) ==
    \/ IndexOf(id) = 0
    \/ LET text == article.title \o <<" ">> \o article.content
           subject == subjects[IndexOf(id)]
       IN  /\ \A k \in 1..Len(subject.keywords) : ~Occurs(subject.keywords[k], text)
           /\ \A k \in 1..Len(subject.relatedTerms) : ~Occurs(subject.relatedTerms[k], text)

\* C14: the output of scoreArticles is as long as its input; output[i] has
\* every field of input[i] unchanged, the engagement object with the same
\* metrics present and absent; and an article in which nothing of the subject
\* occurs is output with matchedKeywords empty and relevanceScore 0.
C14_ScoreArticlesIsMap ==
    scorePc = "scored" =>
        /\ Len(scoredArticles) = Len(articles)
        /\ \A i \in 1..Len(articles) :
              /\ scoredArticles[i].id = articles[i].id
              /\ scoredArticles[i].title = articles[i].title
              /\ scoredArticles[i].url = articles[i].url
              /\ scoredArticles[i].content = articles[i].content
              /\ scoredArticles[i].source = articles[i].source
              /\ scoredArticles[i].publishedAt = articles[i].publishedAt
              /\ DOMAIN scoredArticles[i].engagement = DOMAIN articles[i].engagement
              /\ scoredArticles[i].engagement = articles[i].engagement
              /\ NothingOccurs(articles[i], scoreSubjectId) =>
                    /\ scoredArticles[i].matchedKeywords = <<>>
                    /\ scoredArticles[i].relevanceScore = 0

\* three articles were scored for the registered subject: the first matches
\* it, the second does not, the third does not and lacks the upvotes metric
C14_Witness ==
    /\ scorePc = "scored"
    /\ scoreSubjectId = "agentic-ai"
    /\ Len(scoredArticles) = 3
    /\ scoredArticles[1].matchedKeywords # <<>>
    /\ NothingOccurs(articles[2], scoreSubjectId)
    /\ NothingOccurs(articles[3], scoreSubjectId)
    /\ "upvotes" \notin DOMAIN scoredArticles[3].engagement
    /\ scoredArticles[3].relevanceScore = 0

\* the metric is present and not zero
Reported(engagement, m) == m \in DOMAIN engagement /\ engagement[m] # 0

\* C16: calculateEngagementScore returns the explanation "No engagement
\* metrics available" with totalScore 0 exactly when each of the five metrics
\* is absent or zero; otherwise the explanation lists the metrics that are
\* present and not zero, each once, in the order upvotes, comments, shares,
\* reactions, views, and no other metric.
C16_ExplanationListsReported ==
    scorePc = "calculated" =>
        LET e == scoreInput[1].engagement
            IsReported(m) == Reported(e, m)
            none == \A k \in 1..Len(Metrics) : ~Reported(e, Metrics[k])
        IN  /\ none <=> ( /\ breakdown.explanation = "No engagement metrics available"
                         /\ breakdown.totalScore = 0 )
            /\ none <=> breakdown.explanation = "No engagement metrics available"
            /\ ~none =>
                  /\ breakdown.explanation = "Score calculation"
                  /\ breakdown.listed
                        = SelectSeq(<<"upvotes", "comments", "shares", "reactions", "views">>,
                                    IsReported)

\* the article has upvotes 0, shares 1 and views 2 and no other metric, and
\* the explanation lists shares and views
C16_Witness ==
    /\ scorePc = "calculated"
    /\ DOMAIN scoreInput[1].engagement = {"upvotes", "shares", "views"}
    /\ scoreInput[1].engagement["upvotes"] = 0
    /\ scoreInput[1].engagement["shares"] = 1
    /\ scoreInput[1].engagement["views"] = 2
    /\ breakdown.listed = <<"shares", "views">>
    /\ breakdown.explanation = "Score calculation"

\* ---------------------------------------------------------------- claims C15, C19, C20

ScoreIsTotal(arr) ==
    \A i \in 1..Len(arr) : arr[i].engagementScore = arr[i].scoreBreakdown.totalScore

\* C15: engagementScore = scoreBreakdown.totalScore holds for every article
\* that scoreArticles produced, for every article that getTopArticles
\* returned, for every article that enrichArticlesWithContent put out and for
\* every article of a response.
C15_ScoreEqualsTotal ==
    /\ ScoreIsTotal(scoredArticles)
    /\ ScoreIsTotal(topArticles)
    /\ ScoreIsTotal(topAgain)
    /\ ScoreIsTotal(enrichedArticles)
    /\ \A r \in 1..Len(responses) :
          responses[r].articles # <<>> => ScoreIsTotal(responses[r].articles[1])

\* a 200 response with two articles, one with a scraped content and one with
\* the content it had, both with a score that is not 0
C15_Witness ==
    /\ routePc = "responded"
    /\ Len(responses) = 1
    /\ responses[1].status = 200
    /\ Len(responses[1].articles[1]) = 2
    /\ responses[1].articles[1][1].engagementScore = 200
    /\ responses[1].articles[1][1].content = <<"a", " ", "b">>
    /\ responses[1].articles[1][2].engagementScore = 100
    /\ responses[1].articles[1][2].content = LongContent
    /\ responses[1].articles[1][2].scoreBreakdown.totalScore = 100
    /\ enrichedArticles = responses[1].articles[1]

\* the request at hand names a subject the registry does not have
UnknownRequested == routePc # "idle" /\ getSubject(reqSubjectId) = <<>>

\* C19: a request for a subject that is not registered is answered with
\* status 404 and the body {error: "Subject not found"}, by that one response;
\* and in no state of that request has a provider been called, an article
\* been scored or ranked, or a page been scraped, nor is any call pending.
C19_UnknownSubject404 ==
    UnknownRequested =>
        /\ routePc = "responded"
        /\ Len(responses) = 1
        /\ responses[1].status = 404
        /\ responses[1].error = <<"Subject not found">>
        /\ responses[1].articles = <<>>
        /\ calls = <<>>
        /\ aggPc = "idle"
        /\ \A i \in CrawlerIdx : crawlerState[i] = "notStarted"
        /\ articles = <<>>
        /\ scoredArticles = <<>>
        /\ topArticles = <<>>
        /\ scrapes = <<>>
        /\ enrichedArticles = <<>>

\* the 404 answer to a request for "unknown-subject" with a limit in its query
C19_Witness ==
    /\ UnknownRequested
    /\ reqSubjectId = "unknown-subject"
    /\ reqLimit = 1
    /\ responses = <<NotFound>>

\* the request at hand names a registered subject
KnownRequested == routePc # "idle" /\ getSubject(reqSubjectId) # <<>>

\* C20: a request for a registered subject gets no response before its
\* handler ends and exactly one when it ends: status 500 with the body
\* {error: "Failed to fetch articles"} and no articles if a stage of the
\* pipeline raised an error, the 200 result otherwise.
C20_OneResponse ==
    KnownRequested =>
        /\ Len(responses) = IF routePc = "responded" THEN 1 ELSE 0
        /\ routePc = "responded" =>
              IF raisedAt # "none"
              THEN /\ responses[1].status = 500
                   /\ responses[1].error = <<"Failed to fetch articles">>
                   /\ responses[1].articles = <<>>
                   /\ responses[1].totalFound = <<>>
              ELSE /\ responses[1].status = 200
                   /\ responses[1].error = <<>>
                   /\ responses[1].articles = <<enrichedArticles>>

\* enrichArticlesWithContent raised after two articles were found, scored and
\* enriched, and the response is the 500 without them
C20_Witness ==
    /\ KnownRequested
    /\ routePc = "responded"
    /\ raisedAt = "enrichArticlesWithContent"
    /\ Len(enrichedArticles) = 2
    /\ responses = <<ServerError>>

\* ---------------------------------------------------------------- claim C21

\* C21: in every 200 response totalFound is the number of articles that
\* fetchAllArticles resolved with, returned is the length of the articles
\* array, returned <= totalFound, and for a limit of at least 1 returned is
\* min(limit, totalFound); and when every provider failed or found nothing
\* the response is the 200 with totalFound 0 and an empty articles array.
C21_Counts ==
    /\ \A r \in 1..Len(responses) :
          responses[r].status = 200 =>
              /\ responses[r].totalFound = <<Len(allArticles)>>
              /\ Len(allArticles) = HealthyCount(Len(crawlers))
              /\ responses[r].returned = <<Len(responses[r].articles[1])>>
              /\ responses[r].returned[1] <= responses[r].totalFound[1]
              /\ reqLimit >= 1 =>
                    responses[r].returned[1] = Min(reqLimit, responses[r].totalFound[1])
    /\ ( /\ KnownRequested
         /\ routePc = "responded"
         /\ raisedAt = "none"
         /\ HealthyCount(Len(crawlers)) = 0 )
       => /\ Len(responses) = 1
          /\ responses[1].status = 200
          /\ responses[1].totalFound = <<0>>
          /\ responses[1].returned = <<0>>
          /\ responses[1].articles = << <<>> >>

\* three articles were found and the limit 1 of the query cut them to one
C21_Witness ==
    /\ routePc = "responded"
    /\ reqLimit = 1
    /\ Len(responses) = 1
    /\ responses[1].status = 200
    /\ responses[1].totalFound = <<3>>
    /\ responses[1].returned = <<1>>
    /\ Len(responses[1].articles[1]) = 1

\* ---------------------------------------------------------------- claims C22-C24, C29

\* a call of enrichArticlesWithContent by itself is under way or has returned
EnrichCalled == routePc \in {"enriching", "scraping", "returned"}

\* C22: the array enrichArticlesWithContent fills holds, at every round, the
\* articles of the input that the loop has passed, in input order, each equal
\* to its input article in every field other than content; when the call
\* returns it is as long as the input.
C22_SameArticles ==
    EnrichCalled =>
        /\ Len(enrichedArticles) = enrichIdx - 1
        /\ Len(enrichedArticles) <= Len(topArticles)
        /\ \A i \in 1..Len(enrichedArticles) :
              [enrichedArticles[i] EXCEPT !.content = topArticles[i].content] = topArticles[i]
        /\ routePc = "returned" => Len(enrichedArticles) = Len(topArticles)

\* the call returned two articles: the scrape for the first, a short one,
\* failed, and the second, a long one, has another content than it had
C22_Witness ==
    /\ routePc = "returned"
    /\ Len(topArticles) = 2
    /\ topArticles[1].content = ShortContent
    /\ scrapeLog = << <<<<>>, <<>>>> >>
    /\ enrichedArticles[1] = topArticles[1]
    /\ topArticles[2].content = ParagraphContent
    /\ enrichedArticles[2].content # topArticles[2].content
    /\ enrichedArticles[2].url = topArticles[2].url

\* the indices of the input articles with a content of less than 100
\* characters, in input order
ShortIndices ==
    LET IsShort(i) == Len(topArticles[i].content) < 100
    IN  SelectSeq([i \in 1..Len(topArticles) |-> i], IsShort)

\* the input articles among them that the loop has reached
ShortReached ==
    LET Reached(i) == i < enrichIdx \/ (i = enrichIdx /\ routePc = "scraping")
    IN  SelectSeq(ShortIndices, Reached)

\* the page has no text: nothing but white space
Blank(text) == \A k \in 1..Len(text) : text[k] \in {" ", "\n"}

\* C23: for every input article shorter than 100 characters that the loop
\* has reached, fetchArticleContent was called with the article's url; the
\* call resolved, with the empty string when the request failed or the page
\* had no text; the output article has the fetched text as its content when
\* that is not empty and exactly the content it had otherwise; and the call
\* of enrichArticlesWithContent goes on to its return.
C23_FailedScrapeKeepsContent ==
    EnrichCalled =>
        /\ Len(scrapes) = Len(ShortReached)
        /\ \A k \in 1..Len(scrapes) : scrapes[k] = topArticles[ShortReached[k]].url
        /\ Len(scrapeLog) = Len(scrapes) - (IF routePc = "scraping" THEN 1 ELSE 0)
        /\ \A k \in 1..Len(scrapeLog) :
              LET article == topArticles[ShortReached[k]]
                  page == scrapeLog[k][1]
                  fetched == scrapeLog[k][2]
                  failed == page = <<>> \/ Blank(page[1])
              IN  /\ failed => fetched = <<>>
                  /\ ~failed => fetched # <<>>
                  /\ enrichedArticles[ShortReached[k]].content =
                        IF failed THEN article.content ELSE fetched
        /\ routePc = "returned" => Len(scrapeLog) = Len(ShortIndices)

\* the call returned two articles: the request for the first, of 99
\* characters, failed and it has the content it had; the page of the second,
\* without content, had a text and that is its content
C23_Witness ==
    /\ routePc = "returned"
    /\ Len(topArticles) = 2
    /\ topArticles[1].content = ShortContent
    /\ topArticles[2].content = <<>>
    /\ scrapes = <<topArticles[1].url, topArticles[2].url>>
    /\ scrapeLog[1] = <<<<>>, <<>>>>
    /\ scrapeLog[2][2] = <<"a", " ", "b">>
    /\ enrichedArticles[1].content = ShortContent
    /\ enrichedArticles[2].content = <<"a", " ", "b">>

\* content cut behind its n-th word; a content of at most n words is itself
FirstWords(content, n) ==
    IF Len(Words(content)) <= n THEN content
    ELSE LET starts == WordStarts(content)
             last == CHOOSE k \in starts : Cardinality({j \in starts : j < k}) = n - 1
         IN  SubSeq(content, 1, WordEnd(content, last))

\* C24 as stated: for every input article with a content of 100 characters
\* or more, no scrape request is made for it and its output content is the
\* input content cut behind its 300th word, the input content itself when it
\* has at most 300 words.
C24_LongContentCappedOnly ==
    EnrichCalled =>
        \A i \in 1..Len(enrichedArticles) :
            Len(topArticles[i].content) >= 100 =>
                /\ \A k \in 1..Len(scrapes) : scrapes[k] # topArticles[i].url
                /\ enrichedArticles[i].content = FirstWords(topArticles[i].content, 300)

\* the scrape requests that have not settled
Outstanding == Len(scrapes) - Len(scrapeLog)

C29_State ==
    EnrichCalled =>
        /\ Outstanding \in {0, 1}
        /\ Outstanding = 1 <=> routePc = "scraping"
        /\ Len(scrapes) = Len(ShortReached)
        /\ \A k \in 1..Len(scrapes) : scrapes[k] = topArticles[ShortReached[k]].url
        /\ routePc = "returned" =>
              /\ Outstanding = 0
              /\ ShortReached = ShortIndices

\* a step that starts a scrape request starts one, for the next short article
\* of the input, while no request is outstanding and every article in front
\* of that one has its output article
C29_Step ==
    Len(scrapes') > Len(scrapes) =>
        /\ Len(scrapes') = Len(scrapes) + 1
        /\ Outstanding = 0
        /\ scrapes'[Len(scrapes')] = topArticles[ShortIndices[Len(scrapes')]].url
        /\ Len(enrichedArticles) = ShortIndices[Len(scrapes')] - 1
        /\ enrichedArticles' = enrichedArticles

\* C29: within one call of enrichArticlesWithContent at most one scrape
\* request is outstanding; a request is started only when every earlier
\* article of the input has its output article; the requests are made in
\* input order, one for each article shorter than 100 characters that the
\* loop has reached, whatever the earlier requests gave, and none for
\* another article.
C29_SequentialScrapes == []C29_State /\ [][C29_Step]_vars

\* the request for the second of two short articles is outstanding after the
\* request for the first failed
C29_Witness ==
    /\ routePc = "scraping"
    /\ Len(topArticles) = 2
    /\ topArticles[1].content = ShortContent
    /\ topArticles[2].content = <<>>
    /\ scrapeLog = << <<<<>>, <<>>>> >>
    /\ scrapes = <<topArticles[1].url, topArticles[2].url>>
    /\ Len(enrichedArticles) = 1

\* ---------------------------------------------------------------- claim C25

\* C25 as stated: with providers that keep an item only if
\* isRelevantToSubject holds for it, every article of every 200 response has
\* a relevanceScore above 0 and a matchedKeywords that is not empty, whatever
\* addSubject calls are made while the request is served.
C25_ResponseArticlesRelevant ==
    \A r \in 1..Len(responses) :
        responses[r].status = 200 =>
            \A i \in 1..Len(responses[r].articles[1]) :
                /\ responses[r].articles[1][i].relevanceScore > 0
                /\ responses[r].articles[1][i].matchedKeywords # <<>>

\* ---------------------------------------------------------------- claims C26, C27

\* the k-th entry of the log is the start of a request
IsCall(k) == provLog[k][1] = "call"

\* C26 as stated: the Reddit provider and the Dev.to provider make their
\* requests one after another, each started only when the one before it has
\* settled, and in front of every request but the first the delay has
\* elapsed, whether the request before it succeeded or failed.
C26_DelayBetweenCalls ==
    provName \in {"Reddit", "Dev.to"} =>
        \A k \in 2..Len(provLog) :
            /\ IsCall(k - 1) => (provLog[k][1] \in {"ok", "fail"} /\ provLog[k][2] = provLog[k - 1][2])
            /\ IsCall(k) => provLog[k - 1][1] = "delay"

\* the relevant items of a response, none for a request that failed
Kept(response) == IF response = <<>> THEN <<>> ELSE Gate(response[1], provSubject)

RECURSIVE KeptUpTo(_)
KeptUpTo(n) == IF n = 0 THEN <<>> ELSE KeptUpTo(n - 1) \o Kept(provResponses[n])

\* the endpoints requested, in the order of the requests
Requested == LET Call(e) == e[1] = "call" IN SelectSeq(provLog, Call)

Returned(name) == provName = name /\ provPc = "returned"

\* C27: a provider's call goes on to its return whatever requests fail.  The
\* Reddit provider requests its subreddits in list order, one request each
\* and all eight by its return, and its articles are those of the requests
\* that succeeded.  The Hacker News provider returns no article when a story
\* list failed, and otherwise the relevant stories of the items whose request
\* succeeded, in the order of the ids.  The Dev.to provider returns no
\* article when its first request, and so every request it makes, failed.
C27_ProvidersNeverReject ==
    /\ provName = "Reddit" =>
          /\ \A k \in 1..Len(Requested) : Requested[k][2] = k
          /\ provIdx = Len(Requested)
          /\ provArticles = KeptUpTo(Len(provResponses))
          /\ provPc = "returned" =>
                /\ Len(Requested) = 8
                /\ Len(provResponses) = 8
    /\ Returned("Hacker News") =>
          IF \E k \in 1..Len(provLog) : provLog[k][1] = "fail"
          THEN provArticles = <<>>
          ELSE /\ \A k \in 1..Len(hnIds) :
                    ( /\ hnState[k] = "ok"
                      /\ hnData[k] # <<>>
                      /\ isRelevantToSubject(hnData[k][1].title, hnData[k][1].content,
                                             provSubject) )
                    => \E j \in 1..Len(provArticles) : provArticles[j] = hnData[k][1]
               /\ \A j \in 1..Len(provArticles) :
                    \E k \in 1..Len(hnIds) :
                        hnState[k] = "ok" /\ hnData[k] = <<provArticles[j]>>
               /\ \A i, j \in 1..Len(provArticles) :
                    i < j => \E k, l \in 1..Len(hnIds) :
                                /\ k < l
                                /\ hnData[k] = <<provArticles[i]>>
                                /\ hnData[l] = <<provArticles[j]>>
    /\ (Returned("Dev.to") /\ provResponses = << <<>> >>) => provArticles = <<>>
    /\ provPc = "returned" => provName \in {"Reddit", "Hacker News", "Dev.to"}

\* the Reddit provider returned the articles of its last subreddit after the
\* requests for the seven before it had all failed
C27_Witness ==
    /\ Returned("Reddit")
    /\ \A k \in 1..7 : provResponses[k] = <<>>
    /\ provResponses[8] # <<>>
    /\ Len(provArticles) = 1

\* ---------------------------------------------------------------- claim C28

\* b holds the elements of a, each as often as a does
SameElements(a, b) ==
    /\ Len(a) = Len(b)
    /\ \A i \in 1..Len(a) :
          Cardinality({k \in 1..Len(a) : a[k] = a[i]})
             = Cardinality({k \in 1..Len(b) : b[k] = a[i]})

Descending(arr) ==
    \A i, j \in 1..Len(arr) : i < j => arr[i].engagementScore >= arr[j].engagementScore

\* C28: after getTopArticles(xs, limit) has returned, the caller's xs holds the
\* articles it held before, none removed by the truncation, in descending
\* engagementScore order; the result is an array of its own, the leading part
\* of xs; and the list that was scored, from which totalFound is taken, is as
\* it was.
C28_SortsArgumentInPlace ==
    scorePc \in {"top", "again"} =>
        /\ SameElements(topInput, scoredArticles)
        /\ Descending(scoredArticles)
        /\ topArticles = Slice0(scoredArticles, topLimit)
        /\ topInput = scoreArticles(articles, scoreSubjectId, <<>>)

\* the array given was not in descending order and is longer than the result
C28_Witness ==
    /\ scorePc = "top"
    /\ ~Descending(topInput)
    /\ scoredArticles # topInput
    /\ Len(topArticles) >= 1
    /\ Len(topArticles) < Len(scoredArticles)

\* the same in the handler of GET /api/articles/:subjectId, while it enriches
C28_RouteListUnchanged ==
    (routePc \in {"enriching", "scraping"} /\ reqSubjectId # "none") =>
        /\ articles = allArticles
        /\ SameElements(topInput, scoredArticles)
        /\ Descending(scoredArticles)
        /\ topInput = scoreArticles(articles, reqSubjectId, <<>>)

\* ---------------------------------------------------------------- claim C30

\* C30: in the App, whatever clicks, selections and responses came before, at
\* most one articles request is in flight, loading is true exactly while one
\* is, and an error is never set together with a non-empty article list: a
\* request that failed left the list empty and set the error, one that
\* succeeded set the list and left the error cleared.
C30_OneRequestAtATime ==
    /\ Len(inFlight) <= 1
    /\ loading <=> inFlight # <<>>
    /\ ~(error # <<>> /\ appArticles # <<>>)
    /\ (lastSettled # <<>> /\ lastSettled[1] = "failed") =>
           (error # <<>> /\ appArticles = <<>>)
    /\ (lastSettled # <<>> /\ lastSettled[1] = "ok") =>
           (error = <<>> /\ appArticles = lastSettled[2])

\* a request failed after one for another subject had shown two articles
C30_Witness ==
    /\ lastSettled = <<"failed">>
    /\ error = <<"Failed to fetch articles">>
    /\ appTotalFound = 3
    /\ selectedSubject = "web3"
    /\ ~loading

====
